---- MODULE Spec2Model ----
(***************************************************************************)
(* Model of Enconvo/mcp: the MCP connection pool (mcp_tool main), the     *)
(* OAuth discovery engine (OAuthClient), the token store (TokenManager)   *)
(* and the token acquisition chain (OAuthTransportFactory).               *)
(***************************************************************************)
EXTENDS FiniteSets, Integers, Sequences, TLC

(***************************************************************************)
(* Bounds of the model.                                                    *)
(***************************************************************************)
MaxRequests == 2
MaxTime == 3
MaxOps == 2
MaxFlows == 2
MaxAttempts == 2
MaxChallenges == 2
MaxLexemes == 4
MaxBytes == 2

\* IDLE_TIMEOUT_MS (3 * 60 * 1000 ms), scaled to clock ticks of 90 s.
IDLE_TIMEOUT_MS == 2

Requests == 1..MaxRequests
\* every invocation of main constructs at most one Client
Handles == 1..MaxRequests
NoHandle == 0
NoTimer == -1
Undef == "undefined"

(***************************************************************************)
(* The effective configuration of a request: resolved user settings, the  *)
(* entry point, mcp_config (command, args, env/headers) and the extension *)
(* name.  The inputs are a base configuration and every configuration     *)
(* that differs from it in exactly one component.                          *)
(***************************************************************************)
UCKeys == {"api_key"}

AllConfigs ==
    [user : [UCKeys -> {Undef, "k1"}],
     entry_point : {"https://a/mcp", "https://b/mcp"},
     command : {"node", "python"},
     args : {<<"srv.js">>, <<"srv.js", "-v">>},
     env : {"TOKEN=x", "TOKEN=y"},
     extensionName : {"ext1", "ext2"}]

BaseConfig ==
    [user |-> [k \in UCKeys |-> Undef], entry_point |-> "https://a/mcp",
     command |-> "node", args |-> <<"srv.js">>, env |-> "TOKEN=x",
     extensionName |-> "ext1"]

ConfigFields == {"user", "entry_point", "command", "args", "env", "extensionName"}

Configs ==
    {c \in AllConfigs :
        Cardinality({f \in ConfigFields : c[f] # BaseConfig[f]}) <= 1}

\* userConfig after the filter that drops undefined values
FilterUndefined(user) ==
    {k \in DOMAIN user : user[k] # Undef}

\* keyObject = { ...userConfig, mcpConfig, extensionName }: later properties
\* override spread ones of the same name; entry_point is not a property.
KeyObject(cfg) ==
    [n \in FilterUndefined(cfg.user) \cup {"mcpConfig", "extensionName"} |->
        IF n = "extensionName" THEN <<cfg.extensionName>>
        ELSE IF n = "mcpConfig"
             THEN <<cfg.command, cfg.args, cfg.env>>
             ELSE <<cfg.user[n]>>]

\* serverKey = JSON.stringify(keyObject): one string per distinct object
ServerKey(cfg) == KeyObject(cfg)

KeySet == {ServerKey(c) : c \in Configs}

NoEntry == [client |-> NoHandle, lastUsed |-> 0]

VARIABLE now    \* Date.now()

VARIABLES
    clients,    \* clients[serverKey]: the ClientEntry (client, lastUsed), or NoEntry
    timerDue,   \* due time of the pending timeout (timeoutId) of a Client's entry
    hstatus,    \* state of each Client object
    hcfg,       \* the configuration a Client was created with
    nextHandle, \* number of Client objects constructed so far, plus one
    rpc,        \* position of each invocation of main
    rcfg,       \* effective configuration of the invocation
    rmcp,       \* the Client the invocation uses
    rstart      \* time at which the invocation looked the pool up

poolVars == <<clients, timerDue, hstatus, hcfg, nextHandle,
              rpc, rcfg, rmcp, rstart>>

VARIABLES
    tokenCache, \* TokenManager.tokenCache: key -> StoredToken, or NoToken
    file,       \* the backing file tokens.json
    saves,      \* the saveTokens calls in flight
    opCount,    \* number of mutating TokenManager calls made so far
    ret         \* the last TokenManager call: its name, the name of the call
                \* before it, its triple, the token response passed to it and
                \* the value it returned

tokVars == <<tokenCache, file, saves, opCount, ret>>

VARIABLES
    dpc,        \* position inside discoverProtectedResourceMetadata
    durl,       \* its serverUrl argument
    dreqs,      \* the requests it has issued so far, with their responses
    dmetaUrl,   \* the resource_metadata URL found in the 401 challenge
    dpath,      \* index of the next fallback path
    dresult     \* what the call returned, or the error it threw

discVars == <<dpc, durl, dreqs, dmetaUrl, dpath, dresult>>

VARIABLES
    apc,        \* position inside discoverAuthorizationServer
    aissuer,    \* its issuer argument
    aidx,       \* index of the next discovery endpoint
    areqs,      \* the endpoints requested so far, with their responses
    aresult,    \* what the call returned, or the error it threw
    authServerMetadata  \* OAuthClient.authServerMetadata

asVars == <<apc, aissuer, aidx, areqs, aresult, authServerMetadata>>

VARIABLES
    fpc,        \* position of each getOrObtainAccessToken call
    fcfg,       \* its oauthConfig
    fas,        \* authServerUrl and authServerMetadata of the call
    fclient,    \* clientId
    fexpired,   \* expiredToken (step 6)
    fnew,       \* the token response in hand (newToken / tokenResponse)
    fstale,     \* whether step 5 found an expired record with a refresh_token
    frefresh,   \* the refresh_token grant of the call: none, requested, ok, failed
    fbrowser,   \* whether the call has opened the browser
    fresult     \* the access token returned, or the error thrown

flowVars == <<fpc, fcfg, fas, fclient, fexpired, fnew, fstale, frefresh,
              fbrowser, fresult>>

VARIABLES
    cpromise,   \* the promise of each handleAuthorizationCallback call
    cresult,    \* the code it resolved with, or the message it rejected with
    cserver,    \* its http server: none, listening, closed
    cport,      \* the port the server listens on
    ctimer,     \* when its timeout fires, or NoTimer
    creq,       \* the request whose handling settled the promise
    cexchange,  \* whether exchangeCodeForToken was called with its code
    crashed     \* the process ended on an unhandled 'error' event

cbVars == <<cpromise, cresult, cserver, cport, ctimer, creq, cexchange, crashed>>

VARIABLES
    tpc,        \* position of the createHttpTransport / createSSETransport call
    targs,      \* its arguments: kind, url, headers, oauthConfig
    ttoken,     \* the access token getOrObtainAccessToken returned to it
    ttransport, \* the transport it returned
    npc,        \* position of the createNewClient call
    nserver,    \* manifestInfo.server of the call
    ntransport  \* the transport the call connects

trVars == <<tpc, targs, ttoken, ttransport, npc, nserver, ntransport>>

VARIABLES
    ppc,        \* whether extractMetadataUrlFromWwwAuth has been called
    pheader,    \* the challenges the header it was called with was written from
    ptext,      \* the text of the header it was called with
    pchallenges, \* what parseAuthChallenges returned for that text
    presult     \* what it returned

parVars == <<ppc, pheader, ptext, pchallenges, presult>>

VARIABLES
    kpc,        \* position inside performAuthorizationFlow's PKCE steps
    kpkce,      \* what generatePKCE returned
    kauth,      \* the query parameters of the authorization URL
    ktoken      \* the body parameters of the token request

pkceVars == <<kpc, kpkce, kauth, ktoken>>

VARIABLES
    xpc,        \* position inside OAuthTransportFactory.discoverResourceMetadata
    xmetaUrl,   \* the metadata URL its own pattern found in the header
    xresult     \* what it returned or threw

facVars == <<xpc, xmetaUrl, xresult>>

VARIABLES
    vpc,        \* position of each performAuthorizationFlow call
    vlocals,    \* its local constants: PKCE pair, redirectUri, state, arguments
    vurl,       \* the parameters of its authorization URL
    vreq,       \* the request on which its callback promise resolved
    vtoken,     \* the parameters of its token request
    vcrashed    \* listen() failed on a port in use

attVars == <<vpc, vlocals, vurl, vreq, vtoken, vcrashed>>

VARIABLES
    exited,     \* the shutdown hook has run and the process has exited
    poolAtExit, \* the Clients that were in the pool when the hook ran
    closeThrew  \* those of them whose close() threw

downVars == <<exited, poolAtExit, closeThrew>>

nonPoolVars == <<tokVars, discVars, asVars, flowVars, cbVars, trVars, parVars, pkceVars, facVars, attVars, downVars>>
nonTokVars == <<poolVars, discVars, asVars, flowVars, cbVars, trVars, parVars, pkceVars, facVars, attVars, downVars>>
nonDiscVars == <<poolVars, now, tokVars, asVars, flowVars, cbVars, trVars, parVars, pkceVars, facVars, attVars, downVars>>
nonASVars == <<poolVars, now, tokVars, discVars, flowVars, cbVars, trVars, parVars, pkceVars, facVars, attVars, downVars>>
nonFlowVars == <<poolVars, discVars, asVars, cbVars, trVars, parVars, pkceVars, facVars, attVars, downVars>>
nonCbVars == <<poolVars, tokVars, discVars, asVars, flowVars, trVars, parVars, pkceVars, facVars, attVars, downVars>>
nonTrVars == <<poolVars, now, tokVars, discVars, asVars, flowVars, cbVars, parVars, pkceVars, facVars, attVars, downVars>>
nonParVars == <<poolVars, now, tokVars, discVars, asVars, flowVars, cbVars, trVars,
                pkceVars, facVars, attVars, downVars>>
nonPkceVars == <<poolVars, now, tokVars, discVars, asVars, flowVars, cbVars, trVars,
                 parVars, facVars, attVars, downVars>>
nonFacVars == <<poolVars, now, tokVars, discVars, asVars, flowVars, cbVars, trVars,
                parVars, pkceVars, attVars, downVars>>
nonAttVars == <<poolVars, now, tokVars, discVars, asVars, flowVars, cbVars, trVars,
                parVars, pkceVars, facVars, downVars>>

vars == <<poolVars, now, tokVars, discVars, asVars, flowVars, cbVars, trVars,
          parVars, pkceVars, facVars, attVars, downVars>>

InitPool ==
    /\ clients = [k \in KeySet |-> NoEntry]
    /\ timerDue = [h \in Handles |-> NoTimer]
    /\ hstatus = [h \in Handles |-> "unused"]
    /\ hcfg = [h \in Handles |-> BaseConfig]
    /\ nextHandle = 1
    /\ rpc = [r \in Requests |-> "idle"]
    /\ rcfg = [r \in Requests |-> BaseConfig]
    /\ rmcp = [r \in Requests |-> NoHandle]
    /\ rstart = [r \in Requests |-> 0]

\* invocations are numbered in the order in which they arrive
Arrives(r) ==
    \A q \in Requests : q < r => rpc[q] # "idle"

\* scheduleClientCleanup: the entry's timeoutId becomes a fresh single-shot
\* timer due IDLE_TIMEOUT_MS from now
scheduleClientCleanup(td, h) ==
    [td EXCEPT ![h] = now + IDLE_TIMEOUT_MS]

\* main, cache hit: update lastUsed, clear the old timer, reschedule
MainHit(r, cfg) ==
    LET key == ServerKey(cfg)
        h == clients[key].client
    IN /\ rpc[r] = "idle"
       /\ Arrives(r)
       /\ clients[key] # NoEntry
       /\ clients' = [clients EXCEPT ![key].lastUsed = now]
       /\ timerDue' = scheduleClientCleanup(timerDue, h)
       /\ rpc' = [rpc EXCEPT ![r] = "calling"]
       /\ rcfg' = [rcfg EXCEPT ![r] = cfg]
       /\ rmcp' = [rmcp EXCEPT ![r] = h]
       /\ rstart' = [rstart EXCEPT ![r] = now]
       /\ UNCHANGED <<hstatus, hcfg, nextHandle, now, nonPoolVars>>

\* main, cache miss: createNewClient is awaited; the entry is inserted
\* only after it returns
MainMiss(r, cfg) ==
    LET key == ServerKey(cfg)
    IN /\ rpc[r] = "idle"
       /\ Arrives(r)
       /\ clients[key] = NoEntry
       /\ hstatus' = [hstatus EXCEPT ![nextHandle] = "connecting"]
       /\ hcfg' = [hcfg EXCEPT ![nextHandle] = cfg]
       /\ nextHandle' = nextHandle + 1
       /\ rpc' = [rpc EXCEPT ![r] = "connecting"]
       /\ rcfg' = [rcfg EXCEPT ![r] = cfg]
       /\ rmcp' = [rmcp EXCEPT ![r] = nextHandle]
       /\ rstart' = [rstart EXCEPT ![r] = now]
       /\ UNCHANGED <<clients, timerDue, now, nonPoolVars>>

\* mcp.connect resolved: createNewClient returns, main inserts the entry
\* (overwriting whatever is under the key) and schedules the cleanup
ConnectDone(r) ==
    LET h == rmcp[r]
        key == ServerKey(rcfg[r])
    IN /\ rpc[r] = "connecting"
       /\ hstatus' = [hstatus EXCEPT ![h] = "open"]
       /\ clients' = [clients EXCEPT ![key] = [client |-> h, lastUsed |-> now]]
       /\ timerDue' = scheduleClientCleanup(timerDue, h)
       /\ rpc' = [rpc EXCEPT ![r] = "calling"]
       /\ UNCHANGED <<hcfg, nextHandle, now, rcfg, rmcp, rstart, nonPoolVars>>

\* a main that pools the Client whose connect was rejected
ConnectFail_Pooling(r) ==
    /\ rpc[r] = "connecting"
    /\ hstatus' = [hstatus EXCEPT ![rmcp[r]] = "failed"]
    /\ clients' = [clients EXCEPT ![ServerKey(rcfg[r])] =
                      [client |-> rmcp[r], lastUsed |-> now]]
    /\ rpc' = [rpc EXCEPT ![r] = "failed"]
    /\ UNCHANGED <<timerDue, hcfg, nextHandle, now, rcfg, rmcp, rstart, nonPoolVars>>

\* mcp.connect rejected: createNewClient throws, main propagates
ConnectFail(r) ==
    /\ rpc[r] = "connecting"
    /\ hstatus' = [hstatus EXCEPT ![rmcp[r]] = "failed"]
    /\ rpc' = [rpc EXCEPT ![r] = "failed"]
    /\ UNCHANGED <<clients, timerDue, hcfg, nextHandle, now,
                   rcfg, rmcp, rstart, nonPoolVars>>

\* callTool resolved: main returns the tool result
CallDone(r) ==
    /\ rpc[r] = "calling"
    /\ rpc' = [rpc EXCEPT ![r] = "done"]
    /\ UNCHANGED <<clients, timerDue, hstatus, hcfg, nextHandle,
                   now, rcfg, rmcp, rstart, nonPoolVars>>

\* a timeout callback that closes the entry under the key without looking at
\* lastUsed
TimerFire_NoIdleCheck(h) ==
    LET key == ServerKey(hcfg[h])
        entry == clients[key]
    IN /\ timerDue[h] # NoTimer
       /\ now >= timerDue[h]
       /\ IF entry # NoEntry
          THEN /\ hstatus' = [hstatus EXCEPT ![entry.client] =
                      IF @ \in {"open", "errored"} THEN "closeCalled" ELSE @]
               /\ clients' = [clients EXCEPT ![key] = NoEntry]
          ELSE UNCHANGED <<hstatus, clients>>
       /\ timerDue' = [timerDue EXCEPT ![h] = NoTimer]
       /\ UNCHANGED <<hcfg, nextHandle, now, rpc, rcfg, rmcp, rstart, nonPoolVars>>

\* the timeout callback of scheduleClientCleanup: it looks the entry up by
\* serverKey, closes its client and deletes it if it has been idle
TimerFire(h) ==
    LET key == ServerKey(hcfg[h])
        entry == clients[key]
    IN /\ timerDue[h] # NoTimer
       /\ now >= timerDue[h]
       /\ IF entry # NoEntry /\ now - entry.lastUsed >= IDLE_TIMEOUT_MS
          THEN /\ hstatus' = [hstatus EXCEPT ![entry.client] =
                      IF @ \in {"open", "errored"} THEN "closeCalled" ELSE @]
               /\ clients' = [clients EXCEPT ![key] = NoEntry]
          ELSE UNCHANGED <<hstatus, clients>>
       /\ timerDue' = [timerDue EXCEPT ![h] = NoTimer]
       /\ UNCHANGED <<hcfg, nextHandle, now, rpc, rcfg, rmcp, rstart, nonPoolVars>>

\* the cleanup shared by mcp.onclose and mcp.onerror: clearTimeout of the
\* timer of the entry now under the key, then delete clients[serverKey]
RemoveEntry(key) ==
    LET entry == clients[key]
    IN /\ timerDue' = IF entry # NoEntry
                      THEN [timerDue EXCEPT ![entry.client] = NoTimer]
                      ELSE timerDue
       /\ clients' = [clients EXCEPT ![key] = NoEntry]

\* mcp.onclose
OnClose(h) ==
    /\ hstatus[h] \in {"open", "errored", "closeCalled"}
    /\ RemoveEntry(ServerKey(hcfg[h]))
    /\ hstatus' = [hstatus EXCEPT ![h] = "closed"]
    /\ UNCHANGED <<hcfg, nextHandle, now, rpc, rcfg, rmcp, rstart, nonPoolVars>>

\* mcp.onerror
OnError(h) ==
    /\ hstatus[h] \in {"open", "errored"}
    /\ RemoveEntry(ServerKey(hcfg[h]))
    /\ hstatus' = [hstatus EXCEPT ![h] = "errored"]
    /\ UNCHANGED <<hcfg, nextHandle, now, rpc, rcfg, rmcp, rstart, nonPoolVars>>

\* the clock advances
Tick ==
    /\ now < MaxTime
    /\ now' = now + 1
    /\ UNCHANGED <<poolVars, nonPoolVars>>

InitDown ==
    /\ exited = FALSE
    /\ poolAtExit = {}
    /\ closeThrew = {}

\* the Clients of the entries of the pool
Pooled == {clients[key].client : key \in {k \in KeySet : clients[k] # NoEntry}}

\* cleanupAllClients: for every entry of the pool clearTimeout of its timer
\* and close() of its Client inside try/catch, so that a close() that throws
\* changes nothing; then clients = {}
cleanupAllClients ==
    /\ timerDue' = [h \in Handles |-> IF h \in Pooled THEN NoTimer ELSE timerDue[h]]
    /\ hstatus' = [h \in Handles |->
                      IF h \in Pooled /\ hstatus[h] \in {"open", "errored"}
                      THEN "closeCalled" ELSE hstatus[h]]
    /\ clients' = [k \in KeySet |-> NoEntry]

\* the handler of 'exit', SIGINT or SIGTERM runs and the process exits;
\* close() of the Clients in throwing throws
Shutdown(throwing) ==
    /\ ~exited
    /\ throwing \subseteq Pooled
    /\ cleanupAllClients
    /\ exited' = TRUE
    /\ poolAtExit' = Pooled
    /\ closeThrew' = throwing
    /\ UNCHANGED <<hcfg, nextHandle, rpc, rcfg, rmcp, rstart, now,
                   tokVars, discVars, asVars, flowVars, cbVars, trVars,
                   parVars, pkceVars, facVars, attVars>>

(***************************************************************************)
(* TokenManager                                                            *)
(***************************************************************************)
\* Strings are sequences of characters, so that concatenation is modelled
\* by what it does.
Resources == {<<"r">>, <<"r", ":", "c">>}
ClientIds == {<<"c">>, <<"c", ":", "c">>}
AuthServers == {<<"a">>}
Triples == Resources \X ClientIds \X AuthServers

\* the issuer member of the metadata an authorization server serves: the
\* URL it is listed under, or that URL written with a trailing slash
IssuerSpellings(a) == {a, a \o <<"/">>}

\* the triples a token can be stored under
StoreTriples ==
    Resources \X ClientIds \X UNION {IssuerSpellings(a) : a \in AuthServers}

\* optional numbers: <<>> is undefined, <<n>> is the number n
NoNumber == <<>>

\* the token responses of the token endpoint
TokenResponses ==
    { [access_token |-> "at1", token_type |-> "Bearer", expires_in |-> <<1>>,
       refresh_token |-> "rt1", scope |-> "read"],
      [access_token |-> "at2", token_type |-> "Bearer", expires_in |-> NoNumber,
       refresh_token |-> Undef, scope |-> Undef],
      [access_token |-> "at3", token_type |-> "Bearer", expires_in |-> <<0>>,
       refresh_token |-> "rt3", scope |-> "write"] }

\* JavaScript truthiness of an optional number and of an optional string
TruthyNumber(n) == n # NoNumber /\ n[1] # 0
TruthyString(x) == x # Undef /\ x # ""

\* expires_in * 1000: seconds to milliseconds, in clock ticks
MsPerSecond == 1

\* generateTokenKey: `${resource}:${clientId}:${authServer}`
generateTokenKey(resource, clientId, authServer) ==
    resource \o <<":">> \o clientId \o <<":">> \o authServer

KeyOf(t) == generateTokenKey(t[1], t[2], t[3])

TokenKeys == {KeyOf(t) : t \in StoreTriples}

NoToken == [absent |-> TRUE]

\* a StoredToken built without the refresh token
StoredTokenOf_NoRefresh(tokenResponse, t, time) ==
    [access_token |-> tokenResponse.access_token,
     token_type |-> tokenResponse.token_type,
     refresh_token |-> Undef,
     scope |-> tokenResponse.scope,
     resource |-> t[1],
     client_id |-> t[2],
     authorization_server |-> t[3],
     expires_at |-> IF TruthyNumber(tokenResponse.expires_in)
                    THEN <<time + tokenResponse.expires_in[1] * MsPerSecond>>
                    ELSE NoNumber]

\* the StoredToken that storeToken builds
StoredTokenOf(tokenResponse, t, time) ==
    [access_token |-> tokenResponse.access_token,
     token_type |-> tokenResponse.token_type,
     refresh_token |-> tokenResponse.refresh_token,
     scope |-> tokenResponse.scope,
     resource |-> t[1],
     client_id |-> t[2],
     authorization_server |-> t[3],
     expires_at |-> IF TruthyNumber(tokenResponse.expires_in)
                    THEN <<time + tokenResponse.expires_in[1] * MsPerSecond>>
                    ELSE NoNumber]

\* token.expires_at && Date.now() >= token.expires_at
IsExpired(token, time) ==
    TruthyNumber(token.expires_at) /\ time >= token.expires_at[1]

\* getAllTokens: the values of the cache
getAllTokens(cache) ==
    {cache[k] : k \in {j \in DOMAIN cache : cache[j] # NoToken}}

\* what getValidToken returns: the record, or NoToken for null
ValidToken(cache, t, time) ==
    LET token == cache[KeyOf(t)]
    IN IF token = NoToken THEN NoToken
       ELSE IF IsExpired(token, time) THEN NoToken
       ELSE token

NoFile == [exists |-> FALSE, parseable |-> TRUE,
           content |-> [k \in TokenKeys |-> NoToken]]
NoResponse == [absent |-> TRUE]
NoTriple == <<<<>>, <<>>, <<>>>>
NoCall == [op |-> "none", prev |-> "none", triple |-> NoTriple,
           arg |-> NoResponse, value |-> NoToken, log |-> "none"]

InitTok ==
    /\ tokenCache = [k \in TokenKeys |-> NoToken]
    /\ file = NoFile
    /\ saves = <<>>
    /\ opCount = 0
    /\ ret = NoCall

Returned(op, t, arg, value) ==
    [op |-> op, prev |-> ret.op, triple |-> t, arg |-> arg, value |-> value,
     log |-> "none"]

\* saveTokens is entered by caller who: mkdir is awaited first
BeginSave(who) == Append(saves, [stage |-> "mkdir", owner |-> who])

\* storeToken: build the record, set it under the key, save
storeTokenOp(tokenResponse, t, who) ==
    /\ tokenCache' = [tokenCache EXCEPT ![KeyOf(t)] =
                          StoredTokenOf(tokenResponse, t, now)]
    /\ saves' = BeginSave(who)
    /\ ret' = Returned("storeToken", t, tokenResponse, NoToken)
    /\ UNCHANGED file

\* a getValidToken that deletes the expired record it finds
getValidTokenOp_Deleting(t) ==
    /\ ret' = Returned("getValidToken", t, NoResponse, ValidToken(tokenCache, t, now))
    /\ tokenCache' = IF ValidToken(tokenCache, t, now) = NoToken
                     THEN [tokenCache EXCEPT ![KeyOf(t)] = NoToken]
                     ELSE tokenCache
    /\ UNCHANGED <<file, saves>>

\* getValidToken: null when absent or expired; nothing is deleted or saved
getValidTokenOp(t) ==
    /\ ret' = Returned("getValidToken", t, NoResponse, ValidToken(tokenCache, t, now))
    /\ UNCHANGED <<tokenCache, file, saves>>

\* removeToken: delete the key, save
removeTokenOp(t, who) ==
    /\ tokenCache' = [tokenCache EXCEPT ![KeyOf(t)] = NoToken]
    /\ saves' = BeginSave(who)
    /\ ret' = Returned("removeToken", t, NoResponse, NoToken)
    /\ UNCHANGED file

\* a record built from the response alone, as storeToken builds it
UpdatedTokenOf_Overwriting(existingToken, newTokenResponse, time) ==
    [existingToken EXCEPT
        !.access_token = newTokenResponse.access_token,
        !.token_type = newTokenResponse.token_type,
        !.scope = newTokenResponse.scope,
        !.refresh_token = newTokenResponse.refresh_token,
        !.expires_at = IF TruthyNumber(newTokenResponse.expires_in)
                       THEN <<time + newTokenResponse.expires_in[1] * MsPerSecond>>
                       ELSE NoNumber]

\* the record that updateToken writes over an existing one
UpdatedTokenOf(existingToken, newTokenResponse, time) ==
    [existingToken EXCEPT
        !.access_token = newTokenResponse.access_token,
        !.token_type = newTokenResponse.token_type,
        !.scope = newTokenResponse.scope,
        !.refresh_token = IF TruthyString(newTokenResponse.refresh_token)
                          THEN newTokenResponse.refresh_token ELSE @,
        !.expires_at = IF TruthyNumber(newTokenResponse.expires_in)
                       THEN <<time + newTokenResponse.expires_in[1] * MsPerSecond>>
                       ELSE @]

\* an updateToken that stores the response when there is no record
updateTokenOp_Creating(t, newTokenResponse, who) ==
    LET existingToken == tokenCache[KeyOf(t)]
    IN /\ tokenCache' = [tokenCache EXCEPT ![KeyOf(t)] =
              IF existingToken = NoToken
              THEN StoredTokenOf(newTokenResponse, t, now)
              ELSE UpdatedTokenOf(existingToken, newTokenResponse, now)]
       /\ saves' = BeginSave(who)
       /\ ret' = Returned("updateToken", t, newTokenResponse, NoToken)
       /\ UNCHANGED file

\* updateToken: throws when there is no record under the key
updateTokenOp(t, newTokenResponse, who) ==
    LET existingToken == tokenCache[KeyOf(t)]
    IN /\ IF existingToken = NoToken
          THEN /\ ret' = Returned("updateToken threw", t, newTokenResponse, NoToken)
               /\ UNCHANGED <<tokenCache, saves>>
          ELSE /\ tokenCache' = [tokenCache EXCEPT ![KeyOf(t)] =
                       UpdatedTokenOf(existingToken, newTokenResponse, now)]
               /\ saves' = BeginSave(who)
               /\ ret' = Returned("updateToken", t, newTokenResponse, NoToken)
       /\ UNCHANGED file

\* a clearExpiredTokens that saves whether or not it deleted a record
clearExpiredTokensOp_AlwaysSaving(who) ==
    LET expired == {k \in TokenKeys :
                       tokenCache[k] # NoToken /\ IsExpired(tokenCache[k], now)}
    IN /\ tokenCache' = [k \in TokenKeys |->
                            IF k \in expired THEN NoToken ELSE tokenCache[k]]
       /\ saves' = BeginSave(who)
       /\ ret' = Returned("clearExpiredTokens", NoTriple, NoResponse, NoToken)
       /\ UNCHANGED file

\* clearExpiredTokens: delete every expired record, save if any was deleted
clearExpiredTokensOp(who) ==
    LET expired == {k \in TokenKeys :
                       tokenCache[k] # NoToken /\ IsExpired(tokenCache[k], now)}
    IN /\ tokenCache' = [k \in TokenKeys |->
                            IF k \in expired THEN NoToken ELSE tokenCache[k]]
       /\ saves' = IF expired # {} THEN BeginSave(who) ELSE saves
       /\ ret' = Returned("clearExpiredTokens", NoTriple, NoResponse, NoToken)
       /\ UNCHANGED file

\* clearAllTokens: empty the cache and unlink the backing file
clearAllTokensOp ==
    /\ tokenCache' = [k \in TokenKeys |-> NoToken]
    /\ file' = NoFile
    /\ ret' = Returned("clearAllTokens", NoTriple, NoResponse, NoToken)
    /\ UNCHANGED saves

\* what loadTokens leaves in the cache: every record of the file is set under
\* its key, the cache is not cleared first; a missing file (readFile rejects
\* with ENOENT) or an unparseable one (JSON.parse throws) changes nothing
LoadedCache(cache, f) ==
    IF f.exists /\ f.parseable
    THEN [k \in TokenKeys |-> IF f.content[k] # NoToken THEN f.content[k] ELSE cache[k]]
    ELSE cache

\* what loadTokens writes to the console: the count of loaded tokens, or a
\* warning for an error whose code is not ENOENT, or nothing
LoadLog(f) ==
    IF ~f.exists THEN "none"
    ELSE IF ~f.parseable THEN "warn: Failed to load tokens"
    ELSE "log: Loaded tokens"

\* loadTokens, at the moment readFile has settled
loadTokensOp ==
    /\ tokenCache' = LoadedCache(tokenCache, file)
    /\ ret' = [Returned("loadTokens", NoTriple, NoResponse, NoToken)
                  EXCEPT !.log = LoadLog(file)]
    /\ UNCHANGED <<file, saves>>

\* the calls of a direct user of the TokenManager (who = 0), MaxOps in all
DirectCall == 0

Mutation ==
    /\ opCount < MaxOps
    /\ opCount' = opCount + 1
    /\ UNCHANGED <<now, nonTokVars>>

storeToken(tokenResponse, t) ==
    storeTokenOp(tokenResponse, t, DirectCall) /\ Mutation

getValidToken(t) ==
    getValidTokenOp(t) /\ UNCHANGED <<opCount, now, nonTokVars>>

removeToken(t) ==
    removeTokenOp(t, DirectCall) /\ Mutation

updateToken(t, newTokenResponse) ==
    updateTokenOp(t, newTokenResponse, DirectCall) /\ Mutation

clearExpiredTokens ==
    clearExpiredTokensOp(DirectCall) /\ Mutation

clearAllTokens ==
    clearAllTokensOp /\ Mutation

loadTokens ==
    loadTokensOp /\ UNCHANGED <<opCount, now, nonTokVars>>

RemoveAt(seq, i) == SubSeq(seq, 1, i - 1) \o SubSeq(seq, i + 1, Len(seq))

\* saveTokens after mkdir resolved: the cache is serialized, writeFile awaited
SaveSnapshot(i) ==
    /\ i \in DOMAIN saves
    /\ saves[i].stage = "mkdir"
    /\ saves' = [saves EXCEPT ![i] = [stage |-> "write", owner |-> @.owner,
                                      data |-> tokenCache]]
    /\ UNCHANGED <<tokenCache, file, opCount, ret, now, nonTokVars>>

\* writeFile resolved: the file holds the serialized snapshot
SaveWritten(i) ==
    /\ i \in DOMAIN saves
    /\ saves[i].stage = "write"
    /\ file' = [exists |-> TRUE, parseable |-> TRUE, content |-> saves[i].data]
    /\ saves' = RemoveAt(saves, i)
    /\ UNCHANGED <<tokenCache, opCount, ret, now, nonTokVars>>

\* something outside the process overwrites tokens.json with text that is
\* not JSON
CorruptFile ==
    /\ file.exists
    /\ file.parseable
    /\ file' = [file EXCEPT !.parseable = FALSE]
    /\ UNCHANGED <<tokenCache, saves, opCount, ret, now, nonTokVars>>

(***************************************************************************)
(* OAuthClient: discovery                                                  *)
(***************************************************************************)
\* A URL is its origin followed by its path segments; a trailing slash is
\* an empty last segment.
ServerUrls == {<<"https://mcp.example">>, <<"https://mcp.example", "mcp">>}
Issuers == {<<"https://as.example">>, <<"https://as.example", "tenant">>}

Origin(url) == <<url[1]>>
\* url.pathname.split('/').filter(segment => segment.length > 0)
PathSegments(url) == SelectSeq(Tail(url), LAMBDA seg : seg # "")

NoUrl == <<>>
NoResult == [kind |-> "none"]

(***************************************************************************)
(* A WWW-Authenticate header is a sequence of lexemes: a space, a comma,   *)
(* an equals sign, a double quote, a word (a run of characters that the    *)
(* token pattern [a-zA-Z][a-zA-Z0-9_+-]* matches as a whole), or a text    *)
(* (a run that contains none of the four separators and that the token     *)
(* pattern does not match up to its end, such as a URL).  The two regular  *)
(* expressions of the parser are evaluated on the lexemes as the engine    *)
(* evaluates them on the characters: leftmost match, greedy \s* and        *)
(* [^,\s]+, lazy .+? ended by the lookahead.                               *)
(***************************************************************************)
SP == " "
COMMA == ","
EQ == "="
QUOTE == "\""

Words ==
    {"Bearer", "bearer", "BEARER", "Basic", "realm", "error",
     "error_description", "resource_metadata", "invalid_request", "mcp",
     "No", "access", "token", "Invalid", "please", "retry", "bearertoken"}

\* the position of the first lexeme at or after i that is not a space
SkipSpaces(h, i) ==
    CHOOSE j \in i..(Len(h) + 1) :
        /\ \A k \in i..(j - 1) : h[k] = SP
        /\ j = Len(h) + 1 \/ h[j] # SP

\* the lookahead (?=(?:,\s*token\s)|$) at position q
SchemeAhead(h, q) ==
    \/ q = Len(h) + 1
    \/ /\ q <= Len(h)
       /\ h[q] = COMMA
       /\ LET w == SkipSpaces(h, q + 1)
          IN /\ w + 1 <= Len(h)
             /\ h[w] \in Words
             /\ h[w + 1] = SP

NoMatch == [found |-> FALSE]

\* schemeRegex tried at position p: (?:^|,\s*) token \s+ (.+?) lookahead
SchemeMatchAt(h, p) ==
    LET s == IF p = 1 /\ h[p] # COMMA THEN 1
             ELSE IF h[p] = COMMA THEN SkipSpaces(h, p + 1)
             ELSE 0
    IN IF s = 0 \/ s + 2 > Len(h) \/ h[s] \notin Words \/ h[s + 1] # SP
       THEN NoMatch
       ELSE LET after == SkipSpaces(h, s + 1)
                \* \s+ gives one space back when nothing else is left for .+?
                b == IF after > Len(h) THEN Len(h) ELSE after
                e == CHOOSE q \in (b + 1)..(Len(h) + 1) :
                        /\ SchemeAhead(h, q)
                        /\ \A r \in (b + 1)..(q - 1) : ~SchemeAhead(h, r)
            IN [found |-> TRUE, scheme |-> h[s],
                paramString |-> SubSeq(h, b, e - 1), lastIndex |-> e]

NoParams == [n \in {} |-> <<>>]

\* paramRegex tried at position i: key \s* = \s* ("[^"]*" | [^,\s]+)
ParamMatchAt(ps, i) ==
    LET eq == SkipSpaces(ps, i + 1)
        v == SkipSpaces(ps, eq + 1)
        closing == {c \in (v + 1)..Len(ps) : ps[c] = QUOTE}
        run == {u \in v..Len(ps) : \A k \in v..u : ps[k] \notin {COMMA, SP}}
    IN IF ps[i] \notin Words \/ eq > Len(ps) \/ ps[eq] # EQ \/ v > Len(ps)
       THEN NoMatch
       ELSE IF ps[v] = QUOTE /\ closing # {}
       THEN LET c == CHOOSE x \in closing : \A y \in closing : x <= y
            IN [found |-> TRUE, key |-> ps[i],
                value |-> SubSeq(ps, v + 1, c - 1), lastIndex |-> c + 1]
       ELSE IF run # {}
       THEN LET u == CHOOSE x \in run : \A y \in run : y <= x
            IN [found |-> TRUE, key |-> ps[i],
                value |-> SubSeq(ps, v, u), lastIndex |-> u + 1]
       ELSE NoMatch

RECURSIVE ParamsFrom(_, _, _)
\* the loop over paramRegex.exec: params.set(key, value) for every match
ParamsFrom(ps, i, params) ==
    IF i > Len(ps) THEN params
    ELSE LET m == ParamMatchAt(ps, i)
         IN IF m.found
            THEN ParamsFrom(ps, m.lastIndex,
                            [n \in DOMAIN params \cup {m.key} |->
                                IF n = m.key THEN m.value ELSE params[n]])
            ELSE ParamsFrom(ps, i + 1, params)

parseWwwAuthParams(paramString) == ParamsFrom(paramString, 1, NoParams)

RECURSIVE ChallengesFrom(_, _)
\* the loop over schemeRegex.exec, from lastIndex
ChallengesFrom(h, from) ==
    LET starts == {p \in from..Len(h) : SchemeMatchAt(h, p).found}
    IN IF starts = {} THEN <<>>
       ELSE LET p == CHOOSE x \in starts : \A y \in starts : x <= y
                m == SchemeMatchAt(h, p)
            IN <<[scheme |-> m.scheme, params |-> parseWwwAuthParams(m.paramString)]>>
               \o ChallengesFrom(h, m.lastIndex)

\* wwwAuthHeader.toLowerCase().startsWith('bearer')
StartsWithBearer(wwwAuthHeader) ==
    /\ wwwAuthHeader # <<>>
    /\ wwwAuthHeader[1] \in {"Bearer", "bearer", "BEARER", "bearertoken"}

\* wwwAuthHeader.substring(6): what follows the first six characters
AfterBearer(wwwAuthHeader) ==
    IF wwwAuthHeader[1] = "bearertoken" THEN <<"token">> \o Tail(wwwAuthHeader)
    ELSE Tail(wwwAuthHeader)

\* a parser whose fallback does not look at the start of the header
parseAuthChallenges_AnyHeader(wwwAuthHeader) ==
    LET challenges == ChallengesFrom(wwwAuthHeader, 1)
    IN IF challenges = <<>>
       THEN <<[scheme |-> "Bearer", params |-> parseWwwAuthParams(wwwAuthHeader)]>>
       ELSE challenges

\* parseAuthChallenges, with its fallback for a header that starts with
\* "bearer" and in which the pattern found nothing
parseAuthChallenges(wwwAuthHeader) ==
    LET challenges == ChallengesFrom(wwwAuthHeader, 1)
    IN IF challenges = <<>> /\ StartsWithBearer(wwwAuthHeader)
       THEN <<[scheme |-> "Bearer",
               params |-> parseWwwAuthParams(AfterBearer(wwwAuthHeader))]>>
       ELSE challenges

\* a quoted parameter: key="value"
QuotedParam(key, value) == <<key, EQ, QUOTE>> \o value \o <<QUOTE>>

\* the header  Bearer resource_metadata="url"
BearerWithMetadata(url) ==
    <<"Bearer", SP>> \o QuotedParam("resource_metadata", url)

ChallengeMetadataUrl == <<"https://meta.example", "prm">>
WwwAuthHeaders ==
    { BearerWithMetadata(ChallengeMetadataUrl),
      <<"Basic", SP>> \o QuotedParam("realm", <<"mcp">>) \o <<COMMA, SP, "bearer", SP>>
          \o QuotedParam("resource_metadata", ChallengeMetadataUrl),
      <<"Bearer", SP>> \o QuotedParam("realm", <<"mcp">>) }

\* scheme.toLowerCase() === 'bearer'
IsBearer(scheme) == scheme \in {"Bearer", "bearer", "BEARER"}

RECURSIVE FirstBearerMetadata(_)
\* extractMetadataUrlFromWwwAuth: the resource_metadata of the first Bearer
\* challenge that has one, else null
FirstBearerMetadata(challenges) ==
    IF challenges = <<>> THEN NoUrl
    ELSE LET c == Head(challenges)
         IN IF /\ IsBearer(c.scheme)
               /\ "resource_metadata" \in DOMAIN c.params
               /\ c.params.resource_metadata # NoUrl
            THEN c.params.resource_metadata
            ELSE FirstBearerMetadata(Tail(challenges))

extractMetadataUrlFromWwwAuth(wwwAuthHeader) ==
    FirstBearerMetadata(parseAuthChallenges(wwwAuthHeader))

\* responses to a metadata request: the fetch rejects, a non-2xx status, a
\* body that is not JSON, and JSON bodies
MetadataResponses ==
    { [type |-> "error"],
      [type |-> "status", status |-> 404],
      [type |-> "unparseable"],
      [type |-> "json", body |-> [resource |-> <<"https://mcp.example">>]],
      [type |-> "json", body |-> [resource |-> <<"https://mcp.example">>,
                                  authorization_servers |-> <<>>]],
      [type |-> "json", body |-> [resource |-> <<"https://mcp.example">>,
                                  authorization_servers |-> <<<<"https://as.example">>>>]] }

\* responses to the GET of the resource URL
ResourceResponses ==
    { [type |-> "error"], [type |-> "status", status |-> 200],
      [type |-> "status", status |-> 401] }
    \cup { [type |-> "challenge", status |-> 401, wwwAuth |-> h] : h \in WwwAuthHeaders }

\* metadata.authorization_servers && metadata.authorization_servers.length > 0
HasAuthorizationServers(body) ==
    /\ "authorization_servers" \in DOMAIN body
    /\ Len(body.authorization_servers) > 0

\* response.ok and the body parses into metadata with authorization_servers
YieldsValidMetadata(resp) ==
    /\ resp.type = "json"
    /\ HasAuthorizationServers(resp.body)

WellKnownPRM == <<".well-known", "oauth-protected-resource">>

\* new URL('/.well-known/oauth-protected-resource', serverUrl)
DirectMetadataUrl(serverUrl) == Origin(serverUrl) \o WellKnownPRM

\* metadataPaths of step 3, as URLs at baseUrl.origin
FallbackUrls(serverUrl) ==
    LET base == Origin(serverUrl) \o WellKnownPRM
        segs == PathSegments(serverUrl)
    IN <<base, base \o <<"">> >> \o
       (IF Len(segs) > 0 THEN <<base \o segs, base \o segs \o <<"">> >> ELSE <<>>)

InitDisc ==
    /\ dpc = "idle"
    /\ durl = NoUrl
    /\ dreqs = <<>>
    /\ dmetaUrl = NoUrl
    /\ dpath = 1
    /\ dresult = NoResult

Issued(step, url, resp) == [step |-> step, url |-> url, response |-> resp]

\* discoverProtectedResourceMetadata is called
DiscoverStart(serverUrl) ==
    /\ dpc = "idle"
    /\ dpc' = "direct"
    /\ durl' = serverUrl
    /\ UNCHANGED <<dreqs, dmetaUrl, dpath, dresult, nonDiscVars>>

\* step 1 without the return on success
DirectDiscovery_NoReturn(resp) ==
    /\ dpc = "direct"
    /\ dreqs' = Append(dreqs, Issued(1, DirectMetadataUrl(durl), resp))
    /\ dpc' = "challenge"
    /\ UNCHANGED <<dresult, durl, dmetaUrl, dpath, nonDiscVars>>

\* step 1: the direct well-known request and its response
DirectDiscovery(resp) ==
    /\ dpc = "direct"
    /\ dreqs' = Append(dreqs, Issued(1, DirectMetadataUrl(durl), resp))
    /\ IF YieldsValidMetadata(resp)
       THEN /\ dpc' = "returned"
            /\ dresult' = [kind |-> "metadata", metadata |-> resp.body]
       ELSE /\ dpc' = "challenge"
            /\ UNCHANGED dresult
    /\ UNCHANGED <<durl, dmetaUrl, dpath, nonDiscVars>>

\* step 2: the GET of serverUrl and its response
ChallengeDiscovery(resp) ==
    LET metadataUrl == IF resp.type = "challenge"
                       THEN extractMetadataUrlFromWwwAuth(resp.wwwAuth)
                       ELSE NoUrl
    IN /\ dpc = "challenge"
       /\ dreqs' = Append(dreqs, Issued(2, durl, resp))
       /\ IF metadataUrl # NoUrl
          THEN dpc' = "challenge_metadata" /\ dmetaUrl' = metadataUrl
          ELSE dpc' = "fallback" /\ UNCHANGED dmetaUrl
       /\ UNCHANGED <<durl, dpath, dresult, nonDiscVars>>

\* step 2: the fetch of the resource_metadata URL and its response
ChallengeMetadata(resp) ==
    /\ dpc = "challenge_metadata"
    /\ dreqs' = Append(dreqs, Issued(2, dmetaUrl, resp))
    /\ IF YieldsValidMetadata(resp)
       THEN /\ dpc' = "returned"
            /\ dresult' = [kind |-> "metadata", metadata |-> resp.body]
       ELSE /\ dpc' = "fallback"
            /\ UNCHANGED dresult
    /\ UNCHANGED <<durl, dmetaUrl, dpath, nonDiscVars>>

\* step 3 with a fetch whose rejection is not caught
FallbackDiscovery_Propagating(resp) ==
    LET urls == FallbackUrls(durl)
    IN /\ dpc = "fallback"
       /\ dpath <= Len(urls)
       /\ dreqs' = Append(dreqs, Issued(3, urls[dpath], resp))
       /\ dpath' = dpath + 1
       /\ IF YieldsValidMetadata(resp)
          THEN /\ dpc' = "returned"
               /\ dresult' = [kind |-> "metadata", metadata |-> resp.body]
          ELSE IF resp.type = "error"
               THEN /\ dpc' = "threw"
                    /\ dresult' = [kind |-> "error", names |-> urls[dpath]]
          ELSE IF dpath = Len(urls)
               THEN /\ dpc' = "threw"
                    /\ dresult' = [kind |-> "error", names |-> durl]
               ELSE UNCHANGED <<dpc, dresult>>
       /\ UNCHANGED <<durl, dmetaUrl, nonDiscVars>>

\* step 3: one fallback path and its response; after the last path the call
\* throws an error that names serverUrl
FallbackDiscovery(resp) ==
    LET urls == FallbackUrls(durl)
    IN /\ dpc = "fallback"
       /\ dpath <= Len(urls)
       /\ dreqs' = Append(dreqs, Issued(3, urls[dpath], resp))
       /\ dpath' = dpath + 1
       /\ IF YieldsValidMetadata(resp)
          THEN /\ dpc' = "returned"
               /\ dresult' = [kind |-> "metadata", metadata |-> resp.body]
          ELSE IF dpath = Len(urls)
               THEN /\ dpc' = "threw"
                    /\ dresult' = [kind |-> "error", names |-> durl]
               ELSE UNCHANGED <<dpc, dresult>>
       /\ UNCHANGED <<durl, dmetaUrl, nonDiscVars>>

NextDisc ==
    \/ \E u \in ServerUrls : DiscoverStart(u)
    \/ \E resp \in MetadataResponses : DirectDiscovery(resp)
    \/ \E resp \in ResourceResponses : ChallengeDiscovery(resp)
    \/ \E resp \in MetadataResponses : ChallengeMetadata(resp)
    \/ \E resp \in MetadataResponses : FallbackDiscovery(resp)

\* authorization server metadata documents
ASBase ==
    [issuer |-> <<"https://as.example">>,
     authorization_endpoint |-> "https://as.example/authorize",
     token_endpoint |-> "https://as.example/token"]

WithField(rec, name, value) ==
    [n \in DOMAIN rec \cup {name} |-> IF n = name THEN value ELSE rec[n]]

WithoutField(rec, name) ==
    [n \in DOMAIN rec \ {name} |-> rec[n]]

WithMethods(rec, methods) ==
    WithField(rec, "code_challenge_methods_supported", methods)

ASMetadatas ==
    { WithMethods(WithField(ASBase, "registration_endpoint",
                            "https://as.example/register"), {"S256"}),
      WithMethods(ASBase, {"plain", "S256"}),
      WithMethods(ASBase, {"plain"}),
      WithMethods(ASBase, {}),
      ASBase,
      WithMethods(WithoutField(ASBase, "authorization_endpoint"), {"S256"}),
      WithMethods(WithoutField(ASBase, "token_endpoint"), {"S256"}) }

ASResponses ==
    { [type |-> "error"], [type |-> "status", status |-> 404],
      [type |-> "unparseable"] }
    \cup { [type |-> "json", body |-> m] : m \in ASMetadatas }

WellKnownOAuthAS == <<".well-known", "oauth-authorization-server">>
WellKnownOpenId == <<".well-known", "openid-configuration">>

\* buildDiscoveryEndpoints with the OpenID Connect document tried first
buildDiscoveryEndpoints_OpenIdFirst(issuerUrl) ==
    LET pathSegments == PathSegments(issuerUrl)
        origin == Origin(issuerUrl)
    IN IF Len(pathSegments) > 0
       THEN << origin \o WellKnownOpenId \o pathSegments,
               origin \o WellKnownOAuthAS \o pathSegments,
               origin \o pathSegments \o WellKnownOpenId >>
       ELSE << origin \o WellKnownOpenId,
               origin \o WellKnownOAuthAS >>

\* buildDiscoveryEndpoints
buildDiscoveryEndpoints(issuerUrl) ==
    LET pathSegments == PathSegments(issuerUrl)
        origin == Origin(issuerUrl)
    IN IF Len(pathSegments) > 0
       THEN << origin \o WellKnownOAuthAS \o pathSegments,
               origin \o WellKnownOpenId \o pathSegments,
               origin \o pathSegments \o WellKnownOpenId >>
       ELSE << origin \o WellKnownOAuthAS,
               origin \o WellKnownOpenId >>

\* validateAuthServerMetadata without the PKCE check
validateAuthServerMetadata_NoPKCE(metadata) ==
    /\ "authorization_endpoint" \in DOMAIN metadata
    /\ "token_endpoint" \in DOMAIN metadata

\* validateAuthServerMetadata: TRUE when it does not throw
validateAuthServerMetadata(metadata) ==
    /\ "authorization_endpoint" \in DOMAIN metadata
    /\ "token_endpoint" \in DOMAIN metadata
    /\ "code_challenge_methods_supported" \in DOMAIN metadata
    /\ "S256" \in metadata.code_challenge_methods_supported

NoMetadata == [absent |-> TRUE]

InitAS ==
    /\ apc = "idle"
    /\ aissuer = NoUrl
    /\ aidx = 1
    /\ areqs = <<>>
    /\ aresult = NoResult
    /\ authServerMetadata = NoMetadata

\* discoverAuthorizationServer is called
ASDiscoverStart(issuer) ==
    /\ apc = "idle"
    /\ apc' = "fetch"
    /\ aissuer' = issuer
    /\ UNCHANGED <<aidx, areqs, aresult, authServerMetadata, nonASVars>>

\* one iteration of the loop over the endpoints: the fetch and its response;
\* a rejected fetch, an unparseable body and a validation error are caught
\* and the loop continues; after the last endpoint the call throws
ASDiscoverFetch(resp) ==
    LET endpoints == buildDiscoveryEndpoints(aissuer)
        accepted == resp.type = "json" /\ validateAuthServerMetadata(resp.body)
    IN /\ apc = "fetch"
       /\ aidx <= Len(endpoints)
       /\ areqs' = Append(areqs, [url |-> endpoints[aidx], response |-> resp])
       /\ aidx' = aidx + 1
       /\ IF accepted
          THEN /\ authServerMetadata' = resp.body
               /\ aresult' = [kind |-> "metadata", metadata |-> resp.body]
               /\ apc' = "returned"
          ELSE /\ UNCHANGED authServerMetadata
               /\ IF aidx = Len(endpoints)
                  THEN /\ apc' = "threw"
                       /\ aresult' = [kind |-> "error", names |-> aissuer]
                  ELSE UNCHANGED <<apc, aresult>>
       /\ UNCHANGED <<aissuer, nonASVars>>

NextAS ==
    \/ \E i \in Issuers : ASDiscoverStart(i)
    \/ \E resp \in ASResponses : ASDiscoverFetch(resp)

(***************************************************************************)
(* OAuthTransportFactory.getOrObtainAccessToken                            *)
(***************************************************************************)
Flows == 1..MaxFlows

FlowResource == <<"r">>
NoClientId == <<>>
RegisteredClientId == <<"c">>

\* oauthConfig: client_id (or none) and auto_register (true, false or omitted)
OAuthConfigs ==
    [client_id : {NoClientId}, auto_register : BOOLEAN]
    \cup [client_id : {NoClientId, <<"c">>}]

\* the truthiness of oauthConfig.auto_register: undefined when omitted
AutoRegister(oauthConfig) ==
    "auto_register" \in DOMAIN oauthConfig /\ oauthConfig.auto_register

\* what the two discoveries hand to the call: authorization_servers[0] and
\* authorization server metadata that passed validateAuthServerMetadata
FlowMetadatas ==
    UNION {{[authServerUrl |-> a, metadata |-> WithField(m, "issuer", i)] :
               i \in IssuerSpellings(a),
               m \in {x \in ASMetadatas : validateAuthServerMetadata(x)}} :
           a \in AuthServers}

NoFlowMetadata == [authServerUrl |-> <<>>, metadata |-> NoMetadata]

InitFlow ==
    /\ fpc = [f \in Flows |-> "idle"]
    /\ fcfg = [f \in Flows |-> [client_id |-> NoClientId, auto_register |-> FALSE]]
    /\ fas = [f \in Flows |-> NoFlowMetadata]
    /\ fclient = [f \in Flows |-> NoClientId]
    /\ fexpired = [f \in Flows |-> NoToken]
    /\ fnew = [f \in Flows |-> NoResponse]
    /\ fstale = [f \in Flows |-> FALSE]
    /\ frefresh = [f \in Flows |-> "none"]
    /\ fbrowser = [f \in Flows |-> FALSE]
    /\ fresult = [f \in Flows |-> NoResult]

\* the triple under which the call looks its token up
LookupTriple(f) == <<FlowResource, fclient[f], fas[f].authServerUrl>>

\* the triple under which performAuthorizationFlow stores the token
StoreTriple(f) == <<FlowResource, fclient[f], fas[f].metadata.issuer>>

Throw(f, message) ==
    /\ fpc' = [fpc EXCEPT ![f] = "threw"]
    /\ fresult' = [fresult EXCEPT ![f] = [kind |-> "error", message |-> message]]

Return(f, accessToken) ==
    /\ fpc' = [fpc EXCEPT ![f] = "returned"]
    /\ fresult' = [fresult EXCEPT ![f] = [kind |-> "token", access_token |-> accessToken]]

\* getOrObtainAccessToken is called; calls are numbered in arrival order
FlowStart(f, oauthConfig) ==
    /\ fpc[f] = "idle"
    /\ \A g \in Flows : g < f => fpc[g] # "idle"
    /\ fpc' = [fpc EXCEPT ![f] = "discover"]
    /\ fcfg' = [fcfg EXCEPT ![f] = oauthConfig]
    /\ UNCHANGED <<fas, fclient, fexpired, fnew, fstale, frefresh, fbrowser,
                   fresult, tokVars, now, nonFlowVars>>

\* a step 4 that goes on without a client_id
FlowDiscovered_NoThrow(f, found) ==
    /\ fpc[f] = "discover"
    /\ fas' = [fas EXCEPT ![f] = found]
    /\ fclient' = [fclient EXCEPT ![f] = fcfg[f].client_id]
    /\ fpc' = [fpc EXCEPT ![f] = "lookup"]
    /\ UNCHANGED <<fcfg, fexpired, fnew, fstale, frefresh, fbrowser, fresult,
                   tokVars, now, nonFlowVars>>

\* steps 1 to 3 succeeded: step 4 takes the configured client_id, goes on to
\* register, or throws
FlowDiscovered(f, found) ==
    /\ fpc[f] = "discover"
    /\ fas' = [fas EXCEPT ![f] = found]
    /\ IF fcfg[f].client_id # NoClientId
       THEN /\ fclient' = [fclient EXCEPT ![f] = fcfg[f].client_id]
            /\ fpc' = [fpc EXCEPT ![f] = "lookup"]
            /\ UNCHANGED fresult
       ELSE IF /\ AutoRegister(fcfg[f])
               /\ "registration_endpoint" \in DOMAIN found.metadata
            THEN /\ fpc' = [fpc EXCEPT ![f] = "register"]
                 /\ UNCHANGED <<fclient, fresult>>
            ELSE /\ Throw(f, "No client_id provided and auto_register is disabled")
                 /\ UNCHANGED fclient
    /\ UNCHANGED <<fcfg, fexpired, fnew, fstale, frefresh, fbrowser,
                   tokVars, now, nonFlowVars>>

\* steps 1 to 3: one of the two discoveries throws
FlowDiscoveryFailed(f) ==
    /\ fpc[f] = "discover"
    /\ Throw(f, "discovery failed")
    /\ UNCHANGED <<fcfg, fas, fclient, fexpired, fnew, fstale, frefresh, fbrowser,
                   tokVars, now, nonFlowVars>>

\* the statuses the registration endpoint answers with
RegistrationStatuses == {201, 400, 503}

\* response.ok
StatusOk(status) == status \in 200..299

\* step 4: registerDynamicClient answers; a status that is not 2xx throws
\* the error that carries it
FlowRegistered(f, status) ==
    /\ fpc[f] = "register"
    /\ IF StatusOk(status)
       THEN /\ fclient' = [fclient EXCEPT ![f] = RegisteredClientId]
            /\ fpc' = [fpc EXCEPT ![f] = "lookup"]
            /\ UNCHANGED fresult
       ELSE /\ fpc' = [fpc EXCEPT ![f] = "threw"]
            /\ fresult' = [fresult EXCEPT ![f] =
                              [kind |-> "error",
                               message |-> "Dynamic client registration failed",
                               status |-> status]]
            /\ UNCHANGED fclient
    /\ UNCHANGED <<fcfg, fas, fexpired, fnew, fstale, frefresh, fbrowser,
                   tokVars, now, nonFlowVars>>

\* step 5: existingToken = getValidToken(...); returned if there is one
FlowExistingToken(f) ==
    LET t == LookupTriple(f)
        token == tokenCache[KeyOf(t)]
        existingToken == ValidToken(tokenCache, t, now)
    IN /\ fpc[f] = "lookup"
       /\ getValidTokenOp(t)
       /\ fstale' = [fstale EXCEPT ![f] =
                        /\ token # NoToken
                        /\ IsExpired(token, now)
                        /\ TruthyString(token.refresh_token)]
       /\ IF existingToken # NoToken
          THEN Return(f, existingToken.access_token)
          ELSE /\ fpc' = [fpc EXCEPT ![f] = "lookup_refresh"]
               /\ UNCHANGED fresult
       /\ UNCHANGED <<fcfg, fas, fclient, fexpired, fnew, frefresh, fbrowser,
                      opCount, now, nonFlowVars>>

\* step 6: expiredToken = getValidToken(...); with a refresh_token the
\* refresh_token grant is sent, otherwise step 7 follows
FlowExpiredToken(f) ==
    LET t == LookupTriple(f)
        expiredToken == ValidToken(tokenCache, t, now)
    IN /\ fpc[f] = "lookup_refresh"
       /\ getValidTokenOp(t)
       /\ fexpired' = [fexpired EXCEPT ![f] = expiredToken]
       /\ IF expiredToken # NoToken /\ TruthyString(expiredToken.refresh_token)
          THEN /\ fpc' = [fpc EXCEPT ![f] = "refresh"]
               /\ frefresh' = [frefresh EXCEPT ![f] = "requested"]
          ELSE /\ fpc' = [fpc EXCEPT ![f] = "authorize"]
               /\ UNCHANGED frefresh
       /\ UNCHANGED <<fcfg, fas, fclient, fnew, fstale, fbrowser, fresult,
                      opCount, now, nonFlowVars>>

\* the token endpoint answers the refresh_token grant with 2xx: updateToken;
\* its throw is caught like a failed refresh
FlowRefreshed(f, newToken) ==
    LET t == LookupTriple(f)
    IN /\ fpc[f] = "refresh"
       /\ updateTokenOp(t, newToken, f)
       /\ fnew' = [fnew EXCEPT ![f] = newToken]
       /\ IF tokenCache[KeyOf(t)] # NoToken
          THEN /\ fpc' = [fpc EXCEPT ![f] = "update_saving"]
               /\ frefresh' = [frefresh EXCEPT ![f] = "ok"]
          ELSE /\ fpc' = [fpc EXCEPT ![f] = "refresh_failed"]
               /\ frefresh' = [frefresh EXCEPT ![f] = "failed"]
       /\ UNCHANGED <<fcfg, fas, fclient, fexpired, fstale, fbrowser, fresult,
                      opCount, now, nonFlowVars>>

\* the token endpoint answers the refresh_token grant with a non-2xx status:
\* refreshToken throws
FlowRefreshRejected(f) ==
    /\ fpc[f] = "refresh"
    /\ fpc' = [fpc EXCEPT ![f] = "refresh_failed"]
    /\ frefresh' = [frefresh EXCEPT ![f] = "failed"]
    /\ UNCHANGED <<fcfg, fas, fclient, fexpired, fnew, fstale, fbrowser, fresult,
                   tokVars, now, nonFlowVars>>

\* a catch block that only logs
FlowRefreshCatch_NoRemove(f) ==
    /\ fpc[f] = "refresh_failed"
    /\ fpc' = [fpc EXCEPT ![f] = "remove_saving"]
    /\ UNCHANGED <<fcfg, fas, fclient, fexpired, fnew, fstale, frefresh, fbrowser,
                   fresult, tokVars, now, nonFlowVars>>

\* the catch block of step 6: removeToken
FlowRefreshCatch(f) ==
    /\ fpc[f] = "refresh_failed"
    /\ removeTokenOp(LookupTriple(f), f)
    /\ fpc' = [fpc EXCEPT ![f] = "remove_saving"]
    /\ UNCHANGED <<fcfg, fas, fclient, fexpired, fnew, fstale, frefresh, fbrowser,
                   fresult, opCount, now, nonFlowVars>>

\* the saveTokens awaited by the call has resolved
FlowSaved(f) ==
    /\ fpc[f] \in {"update_saving", "remove_saving", "store_saving"}
    /\ \A i \in DOMAIN saves : saves[i].owner # f
    /\ IF fpc[f] = "remove_saving"
       THEN /\ fpc' = [fpc EXCEPT ![f] = "authorize"]
            /\ UNCHANGED fresult
       ELSE Return(f, fnew[f].access_token)
    /\ UNCHANGED <<fcfg, fas, fclient, fexpired, fnew, fstale, frefresh, fbrowser,
                   tokVars, now, nonFlowVars>>

\* step 7, performAuthorizationFlow: PKCE, authorization URL, openBrowser
FlowOpenBrowser(f) ==
    /\ fpc[f] = "authorize"
    /\ fpc' = [fpc EXCEPT ![f] = "callback"]
    /\ fbrowser' = [fbrowser EXCEPT ![f] = TRUE]
    /\ UNCHANGED <<fcfg, fas, fclient, fexpired, fnew, fstale, frefresh, fresult,
                   tokVars, now, nonFlowVars>>

\* handleAuthorizationCallback resolves with a code or rejects
FlowCallback(f, delivered) ==
    /\ fpc[f] = "callback"
    /\ IF delivered
       THEN /\ fpc' = [fpc EXCEPT ![f] = "exchange"]
            /\ UNCHANGED fresult
       ELSE Throw(f, "authorization failed")
    /\ UNCHANGED <<fcfg, fas, fclient, fexpired, fnew, fstale, frefresh, fbrowser,
                   tokVars, now, nonFlowVars>>

\* exchangeCodeForToken resolves: storeToken under the issuer
FlowExchanged(f, tokenResponse) ==
    /\ fpc[f] = "exchange"
    /\ storeTokenOp(tokenResponse, StoreTriple(f), f)
    /\ fnew' = [fnew EXCEPT ![f] = tokenResponse]
    /\ fpc' = [fpc EXCEPT ![f] = "store_saving"]
    /\ UNCHANGED <<fcfg, fas, fclient, fexpired, fstale, frefresh, fbrowser,
                   fresult, opCount, now, nonFlowVars>>

\* a performAuthorizationFlow that stores before the exchange has answered
FlowExchangeRejected_Storing(f) ==
    /\ fpc[f] = "exchange"
    /\ storeTokenOp(CHOOSE tr \in TokenResponses : tr.access_token = "at2",
                    StoreTriple(f), f)
    /\ Throw(f, "Token exchange failed")
    /\ UNCHANGED <<fcfg, fas, fclient, fexpired, fnew, fstale, frefresh, fbrowser,
                   opCount, now, nonFlowVars>>

\* exchangeCodeForToken throws on a non-2xx status
FlowExchangeRejected(f) ==
    /\ fpc[f] = "exchange"
    /\ Throw(f, "Token exchange failed")
    /\ UNCHANGED <<fcfg, fas, fclient, fexpired, fnew, fstale, frefresh, fbrowser,
                   tokVars, now, nonFlowVars>>

(***************************************************************************)
(* OAuthTransportFactory.handleAuthorizationCallback                       *)
(***************************************************************************)
Attempts == 1..MaxAttempts

\* the window of the callback timeout (5 * 60 * 1000 ms), scaled to clock
\* ticks of 150 s
CALLBACK_TIMEOUT_MS == 2

\* a query parameter: absent, present and empty, or present with a value
NoParam == <<>>
Params(values) == {NoParam, <<"">>} \cup {<<v>> : v \in values}

\* JavaScript truthiness of a query parameter
TruthyParam(p) == p # NoParam /\ p[1] # ""

\* the state generated by buildAuthorizationUrl for an attempt
ExpectedState(a) == IF a = 1 THEN "s1" ELSE "s2"

CallbackPorts == {"8080", "9090"}

HttpRequests ==
    [pathname : {"/callback", "/other"},
     error : Params({"access_denied"}),
     state : Params({"s1", "s2"}),
     code : Params({"abc"})]

NoRequest == [pathname |-> "none"]
NoOutcome == [kind |-> "none"]

InitCallback ==
    /\ cpromise = [a \in Attempts |-> "none"]
    /\ cresult = [a \in Attempts |-> NoOutcome]
    /\ cserver = [a \in Attempts |-> "none"]
    /\ cport = [a \in Attempts |-> "8080"]
    /\ ctimer = [a \in Attempts |-> NoTimer]
    /\ creq = [a \in Attempts |-> NoRequest]
    /\ cexchange = [a \in Attempts |-> FALSE]
    /\ crashed = FALSE

\* resolve or reject of the promise: only the first call has an effect
Settle(a, state, outcome, req) ==
    IF cpromise[a] = "pending"
    THEN /\ cpromise' = [cpromise EXCEPT ![a] = state]
         /\ cresult' = [cresult EXCEPT ![a] = outcome]
         /\ creq' = [creq EXCEPT ![a] = req]
    ELSE UNCHANGED <<cpromise, cresult, creq>>

Rejected(message) == [kind |-> "error", message |-> message]
Resolved(code) == [kind |-> "code", code |-> code]

\* the promise executor: createServer, listen on the port of the redirect
\* URI, setTimeout; occupied is whether another process holds the port
CallbackStart(a, port, occupied) ==
    /\ ~crashed
    /\ cpromise[a] = "none"
    /\ \A b \in Attempts : b < a => cpromise[b] # "none"
    /\ cpromise' = [cpromise EXCEPT ![a] = "pending"]
    /\ cport' = [cport EXCEPT ![a] = port]
    /\ ctimer' = [ctimer EXCEPT ![a] = now + CALLBACK_TIMEOUT_MS]
    /\ IF occupied \/ \E b \in Attempts : cserver[b] = "listening" /\ cport[b] = port
       THEN \* EADDRINUSE: the server emits 'error', which has no listener
            /\ crashed' = TRUE
            /\ UNCHANGED cserver
       ELSE /\ cserver' = [cserver EXCEPT ![a] = "listening"]
            /\ UNCHANGED crashed
    /\ UNCHANGED <<cresult, creq, cexchange, now, nonCbVars>>

\* a request listener that does not compare the state parameter
CallbackRequest_NoStateCheck(a, req) ==
    /\ ~crashed
    /\ cserver[a] = "listening"
    /\ IF req.pathname = "/callback"
       THEN /\ cserver' = [cserver EXCEPT ![a] = "closed"]
            /\ IF TruthyParam(req.error)
               THEN Settle(a, "rejected",
                           Rejected(<<"Authorization error: ", req.error[1]>>), req)
               ELSE IF ~TruthyParam(req.code)
               THEN Settle(a, "rejected",
                           Rejected(<<"No authorization code received">>), req)
               ELSE Settle(a, "resolved", Resolved(req.code[1]), req)
       ELSE UNCHANGED <<cserver, cpromise, cresult, creq>>
    /\ UNCHANGED <<cport, ctimer, cexchange, crashed, now, nonCbVars>>

\* the request listener of the server
CallbackRequest(a, req) ==
    /\ ~crashed
    /\ cserver[a] = "listening"
    /\ IF req.pathname = "/callback"
       THEN /\ cserver' = [cserver EXCEPT ![a] = "closed"]
            /\ IF TruthyParam(req.error)
               THEN Settle(a, "rejected",
                           Rejected(<<"Authorization error: ", req.error[1]>>), req)
               ELSE IF req.state # <<ExpectedState(a)>>
               THEN Settle(a, "rejected", Rejected(<<"Invalid state parameter">>), req)
               ELSE IF ~TruthyParam(req.code)
               THEN Settle(a, "rejected",
                           Rejected(<<"No authorization code received">>), req)
               ELSE Settle(a, "resolved", Resolved(req.code[1]), req)
       ELSE UNCHANGED <<cserver, cpromise, cresult, creq>>
    /\ UNCHANGED <<cport, ctimer, cexchange, crashed, now, nonCbVars>>

\* the timeout callback; the timer is never cleared, so it also fires after
\* the promise has settled
CallbackTimeout(a) ==
    /\ ~crashed
    /\ ctimer[a] # NoTimer
    /\ now >= ctimer[a]
    /\ ctimer' = [ctimer EXCEPT ![a] = NoTimer]
    /\ cserver' = [cserver EXCEPT ![a] = "closed"]
    /\ Settle(a, "rejected", Rejected(<<"Authorization timeout">>), NoRequest)
    /\ UNCHANGED <<cport, cexchange, crashed, now, nonCbVars>>

\* performAuthorizationFlow goes on after the await: exchangeCodeForToken
CallbackExchange(a) ==
    /\ ~crashed
    /\ cpromise[a] = "resolved"
    /\ ~cexchange[a]
    /\ cexchange' = [cexchange EXCEPT ![a] = TRUE]
    /\ UNCHANGED <<cpromise, cresult, cserver, cport, ctimer, creq, crashed,
                   now, nonCbVars>>

\* time passes; a timer that is due fires before the clock moves past it
CallbackTick ==
    /\ ~crashed
    /\ \A a \in Attempts : ctimer[a] # NoTimer => now < ctimer[a]
    /\ Tick

(***************************************************************************)
(* Transports: OAuthTransportFactory.createHttpTransport and               *)
(* createSSETransport, and createNewClient of the pool                     *)
(***************************************************************************)
\* a headers object: property names are case-sensitive
NoHeaders == [n \in {} |-> <<>>]
HeaderNames == {"Authorization", "authorization", "X-Api-Key"}

CallerHeaders ==
    {NoHeaders} \cup {WithField(NoHeaders, n, <<"caller">>) : n \in HeaderNames}

\* header names are case-insensitive on the wire
LowerCase(name) ==
    IF name = "Authorization" THEN "authorization"
    ELSE IF name = "X-Api-Key" THEN "x-api-key"
    ELSE name

\* the values a headers object gives for a header
HeaderValues(headers, name) ==
    {headers[n] : n \in {m \in DOMAIN headers : LowerCase(m) = LowerCase(name)}}

AccessTokens == {"at1", "at2"}
Bearer(accessToken) == <<"Bearer ", accessToken>>

TransportUrls == {"https://a/mcp", "https://b/mcp"}

\* the oauthConfig argument: absent, or with enabled false or true
NoOAuthConfig == [absent |-> TRUE]
TransportOAuthConfigs == {NoOAuthConfig, [enabled |-> FALSE], [enabled |-> TRUE]}

\* oauthConfig?.enabled
OAuthEnabled(oauthConfig) ==
    "enabled" \in DOMAIN oauthConfig /\ oauthConfig.enabled

NoTransport == [kind |-> "none"]
NoArgs == [kind |-> "none", url |-> "none", headers |-> NoHeaders,
           oauthConfig |-> NoOAuthConfig]
NoAccessToken == "none"
NoServer == [type |-> "none"]

\* manifestInfo.server: type, entry_point, mcp_config and oauth_config
Servers ==
    [type : {"http", "sse", "stdio"},
     entry_point : TransportUrls,
     env : CallerHeaders,
     oauth_config : TransportOAuthConfigs]

InitTransport ==
    /\ tpc = "idle"
    /\ targs = NoArgs
    /\ ttoken = NoAccessToken
    /\ ttransport = NoTransport
    /\ npc = "idle"
    /\ nserver = NoServer
    /\ ntransport = NoTransport

\* new StreamableHTTPClientTransport / SSEClientTransport(url, {requestInit})
RemoteTransport(kind, url, headers) ==
    [kind |-> kind, url |-> url, headers |-> headers]

\* createHttpTransport or createSSETransport is called: without OAuth the
\* plain transport is returned, with OAuth getOrObtainAccessToken is awaited
CreateTransport(kind, url, headers, oauthConfig) ==
    /\ tpc = "idle"
    /\ targs' = [kind |-> kind, url |-> url, headers |-> headers,
                 oauthConfig |-> oauthConfig]
    /\ IF ~OAuthEnabled(oauthConfig)
       THEN /\ tpc' = "returned"
            /\ ttransport' = RemoteTransport(kind, url, headers)
       ELSE /\ tpc' = "acquiring"
            /\ UNCHANGED ttransport
    /\ UNCHANGED <<ttoken, npc, nserver, ntransport, nonTrVars>>

\* getOrObtainAccessToken resolved: authHeaders = {...headers, Authorization}
CreateTransportToken(accessToken) ==
    /\ tpc = "acquiring"
    /\ ttoken' = accessToken
    /\ ttransport' = RemoteTransport(targs.kind, targs.url,
                         WithField(targs.headers, "Authorization", Bearer(accessToken)))
    /\ tpc' = "returned"
    /\ UNCHANGED <<targs, npc, nserver, ntransport, nonTrVars>>

\* getOrObtainAccessToken rejected: 'OAuth authentication failed' is thrown
CreateTransportFailed ==
    /\ tpc = "acquiring"
    /\ tpc' = "threw"
    /\ UNCHANGED <<targs, ttoken, ttransport, npc, nserver, ntransport, nonTrVars>>

\* createNewClient: the transport is built from server.type, entry_point and
\* mcp_config, and mcp.connect is awaited
CreateNewClient(server) ==
    /\ npc = "idle"
    /\ nserver' = server
    /\ ntransport' =
          IF server.type \in {"http", "sse"}
          THEN RemoteTransport(server.type, server.entry_point, server.env)
          ELSE [kind |-> "stdio", env |-> server.env]
    /\ npc' = "connecting"
    /\ UNCHANGED <<tpc, targs, ttoken, ttransport, nonTrVars>>

\* mcp.connect resolved or rejected
CreateNewClientConnected(ok) ==
    /\ npc = "connecting"
    /\ npc' = IF ok THEN "connected" ELSE "failed"
    /\ UNCHANGED <<tpc, targs, ttoken, ttransport, nserver, ntransport, nonTrVars>>

(***************************************************************************)
(* OAuthClient.extractMetadataUrlFromWwwAuth on written-out headers        *)
(***************************************************************************)
\* a parameter of a challenge: its name, its value, quoted or not
Param(key, value, quoted) == [key |-> key, value |-> value, quoted |-> quoted]

MetadataUrl1 == <<"https://rs.example/.well-known/oauth-protected-resource/mcp/">>
MetadataUrl2 == <<"https://rs.example/prm">>

ParamLists ==
    { <<Param("realm", <<"mcp">>, TRUE)>>,
      <<Param("resource_metadata", MetadataUrl1, TRUE)>>,
      <<Param("error", <<"invalid_request">>, TRUE),
        Param("error_description", <<"No", SP, "access", SP, "token">>, TRUE),
        Param("realm", <<"mcp">>, TRUE),
        Param("resource_metadata", MetadataUrl1, TRUE)>>,
      <<Param("error", <<"invalid_request">>, TRUE),
        Param("error_description",
              <<"Invalid", SP, "token", COMMA, SP, "please", SP, "retry">>, TRUE),
        Param("realm", <<"mcp">>, TRUE),
        Param("resource_metadata", MetadataUrl2, TRUE)>>,
      <<Param("resource_metadata", MetadataUrl2, FALSE)>> }

ChallengeSchemes == {"Bearer", "bearer", "Basic"}

WrittenChallenges == [scheme : ChallengeSchemes, params : ParamLists]

\* the headers: one to MaxChallenges challenges
WrittenHeaders ==
    UNION {[1..n -> WrittenChallenges] : n \in 1..MaxChallenges}

RECURSIVE Joined(_)
\* the items of a sequence of sequences, separated by a comma and a space
Joined(items) ==
    IF items = <<>> THEN <<>>
    ELSE IF Len(items) = 1 THEN items[1]
    ELSE items[1] \o <<COMMA, SP>> \o Joined(Tail(items))

WrittenParam(p) ==
    IF p.quoted THEN QuotedParam(p.key, p.value) ELSE <<p.key, EQ>> \o p.value

WrittenChallenge(c) ==
    <<c.scheme, SP>> \o Joined([i \in DOMAIN c.params |-> WrittenParam(c.params[i])])

\* the text of the header, as lexemes
HeaderText(header) ==
    Joined([i \in DOMAIN header |-> WrittenChallenge(header[i])])

NoHeader == <<>>

InitParse ==
    /\ ppc = "idle"
    /\ pheader = NoHeader
    /\ ptext = <<>>
    /\ pchallenges = <<>>
    /\ presult = NoUrl

\* extractMetadataUrlFromWwwAuth is called with the text of a header
ExtractCall(header) ==
    /\ ppc = "idle"
    /\ ppc' = "returned"
    /\ pheader' = header
    /\ ptext' = HeaderText(header)
    /\ pchallenges' = parseAuthChallenges(HeaderText(header))
    /\ presult' = extractMetadataUrlFromWwwAuth(HeaderText(header))
    /\ UNCHANGED nonParVars

\* the lexemes of the headers that are not written from challenges
Lexemes == {"Bearer", "bearertoken", "Basic", "realm", SP, COMMA, EQ, QUOTE}

\* every text of at most MaxLexemes lexemes, the empty one included
AnyHeaders == UNION {[1..n -> Lexemes] : n \in 0..MaxLexemes}

\* extractMetadataUrlFromWwwAuth is called with an arbitrary text
ExtractAny(text) ==
    /\ ppc = "idle"
    /\ ppc' = "parsed"
    /\ pheader' = NoHeader
    /\ ptext' = text
    /\ pchallenges' = parseAuthChallenges(text)
    /\ presult' = extractMetadataUrlFromWwwAuth(text)
    /\ UNCHANGED nonParVars

(***************************************************************************)
(* PKCE: OAuthClient.generatePKCE, buildAuthorizationUrl and               *)
(* exchangeCodeForToken as performAuthorizationFlow calls them.  Base64url *)
(* is computed on the bytes.  A SHA-256 digest is a term over its input,   *)
(* and so is its encoding.                                                 *)
(***************************************************************************)
\* the base64url alphabet (RFC 4648, section 5)
Base64UrlAlphabet ==
    <<"A", "B", "C", "D", "E", "F", "G", "H", "I", "J", "K", "L", "M", "N", "O", "P",
      "Q", "R", "S", "T", "U", "V", "W", "X", "Y", "Z", "a", "b", "c", "d", "e", "f",
      "g", "h", "i", "j", "k", "l", "m", "n", "o", "p", "q", "r", "s", "t", "u", "v",
      "w", "x", "y", "z", "0", "1", "2", "3", "4", "5", "6", "7", "8", "9", "-", "_">>

RECURSIVE Sextets(_)
\* the six-bit groups of a byte string, the last group filled with zero bits
Sextets(bytes) ==
    IF bytes = <<>> THEN <<>>
    ELSE IF Len(bytes) = 1
    THEN <<bytes[1] \div 4, (bytes[1] % 4) * 16>>
    ELSE IF Len(bytes) = 2
    THEN <<bytes[1] \div 4, (bytes[1] % 4) * 16 + bytes[2] \div 16,
           (bytes[2] % 16) * 4>>
    ELSE <<bytes[1] \div 4, (bytes[1] % 4) * 16 + bytes[2] \div 16,
           (bytes[2] % 16) * 4 + bytes[3] \div 64, bytes[3] % 64>>
         \o Sextets(SubSeq(bytes, 4, Len(bytes)))

\* buffer.toString('base64url'): URL-safe alphabet, no padding
ToBase64Url(bytes) ==
    [i \in DOMAIN Sextets(bytes) |-> Base64UrlAlphabet[Sextets(bytes)[i] + 1]]

\* the code of a character of the alphabet
CharCode(c) ==
    LET i == CHOOSE j \in 1..64 : Base64UrlAlphabet[j] = c
    IN IF i <= 26 THEN 64 + i
       ELSE IF i <= 52 THEN 96 + (i - 26)
       ELSE IF i <= 62 THEN 47 + (i - 52)
       ELSE IF i = 63 THEN 45 ELSE 95

\* hash.update(string): the UTF-8 bytes of the string
Utf8(string) == [i \in DOMAIN string |-> CharCode(string[i])]

\* crypto.createHash('sha256').update(data): the digest of the bytes
Sha256(bytes) == [hash |-> "sha256", of |-> bytes]

\* hash.digest('base64url')
DigestBase64Url(digest) == [encoding |-> "base64url", of |-> digest]

ByteValues == {0, 1, 16, 62, 63, 127, 128, 200, 250, 251, 252, 255}

\* crypto.randomBytes(n), n up to MaxBytes
RandomBytes == UNION {[1..n -> ByteValues] : n \in 1..MaxBytes}

NoPKCE == [codeVerifier |-> <<>>]
NoAuthUrl == [response_type |-> "none"]
NoTokenRequest == [grant_type |-> "none"]

InitPKCE ==
    /\ kpc = "idle"
    /\ kpkce = NoPKCE
    /\ kauth = NoAuthUrl
    /\ ktoken = NoTokenRequest

\* a generatePKCE that hashes the random bytes, not the verifier string
generatePKCE_HashingBytes(random) ==
    [codeVerifier |-> ToBase64Url(random),
     codeChallenge |-> DigestBase64Url(Sha256(random))]

generatePKCE(random) ==
    LET codeVerifier == ToBase64Url(random)
    IN [codeVerifier |-> codeVerifier,
        codeChallenge |-> DigestBase64Url(Sha256(Utf8(codeVerifier)))]

\* the characters URLSearchParams.toString() leaves as they are
FormSafe == {Base64UrlAlphabet[i] : i \in 1..64} \cup {"*", "."}

\* URLSearchParams.toString() on a value: other characters are escaped
FormEncode(string) ==
    [i \in DOMAIN string |->
        IF string[i] \in FormSafe THEN string[i] ELSE "%" \o string[i]]

\* performAuthorizationFlow: generatePKCE()
GeneratePKCE(random) ==
    /\ kpc = "idle"
    /\ kpc' = "generated"
    /\ kpkce' = generatePKCE(random)
    /\ UNCHANGED <<kauth, ktoken, nonPkceVars>>

\* performAuthorizationFlow: buildAuthorizationUrl(..., codeChallenge, scope)
BuildAuthorizationUrl ==
    /\ kpc = "generated"
    /\ kpc' = "authorizing"
    /\ kauth' = [response_type |-> "code",
                 code_challenge |-> kpkce.codeChallenge,
                 code_challenge_method |-> "S256"]
    /\ UNCHANGED <<kpkce, ktoken, nonPkceVars>>

\* performAuthorizationFlow: exchangeCodeForToken(..., codeVerifier, ...)
ExchangeCodeForToken ==
    /\ kpc = "authorizing"
    /\ kpc' = "exchanged"
    /\ ktoken' = [grant_type |-> "authorization_code",
                  code_verifier |-> FormEncode(kpkce.codeVerifier)]
    /\ UNCHANGED <<kpkce, kauth, nonPkceVars>>

(***************************************************************************)
(* OAuthTransportFactory.discoverResourceMetadata: the call of             *)
(* OAuthClient.discoverProtectedResourceMetadata and, when that throws,    *)
(* the factory's own request of the resource and of the metadata URL       *)
(***************************************************************************)
RECURSIVE QuoteFrom(_, _)
\* the least position from i on that holds a double quote, 0 when none does
QuoteFrom(h, i) ==
    IF i > Len(h) THEN 0
    ELSE IF h[i] = QUOTE THEN i
    ELSE QuoteFrom(h, i + 1)

\* /resource_metadata="([^"]+)"/ matches with its first character at the
\* lexeme i: the key, =, ", one lexeme or more that are no quote, and "
SimpleMatchAt(h, i) ==
    /\ i + 4 <= Len(h)
    /\ h[i] = "resource_metadata"
    /\ h[i + 1] = EQ
    /\ h[i + 2] = QUOTE
    /\ QuoteFrom(h, i + 3) > i + 3

RECURSIVE SimpleMatchFrom(_, _)
\* the leftmost match from the lexeme i on: its captured group, else null
SimpleMatchFrom(h, i) ==
    IF i > Len(h) THEN NoUrl
    ELSE IF SimpleMatchAt(h, i) THEN SubSeq(h, i + 3, QuoteFrom(h, i + 3) - 1)
    ELSE SimpleMatchFrom(h, i + 1)

\* the factory's private extractMetadataUrlFromWwwAuth
FactoryExtractMetadataUrl(wwwAuthHeader) == SimpleMatchFrom(wwwAuthHeader, 1)

InitFactory ==
    /\ xpc = "idle"
    /\ xmetaUrl = NoUrl
    /\ xresult = NoResult

\* the OAuthClient's discovery returned: its value is returned
FactoryDelegated ==
    /\ xpc = "idle"
    /\ dpc = "returned"
    /\ xpc' = "returned"
    /\ xresult' = dresult
    /\ UNCHANGED <<xmetaUrl, nonFacVars>>

\* the OAuthClient's discovery threw: fetch(resourceUrl) and its response;
\* without a 401 that carries a metadata URL the call throws
FactoryRefetch(resp) ==
    LET metadataUrl == IF resp.type = "challenge"
                       THEN FactoryExtractMetadataUrl(resp.wwwAuth)
                       ELSE NoUrl
    IN /\ xpc = "idle"
       /\ dpc = "threw"
       /\ IF metadataUrl # NoUrl
          THEN /\ xpc' = "metadata"
               /\ xmetaUrl' = metadataUrl
               /\ UNCHANGED xresult
          ELSE /\ xpc' = "threw"
               /\ xresult' = [kind |-> "error", names |-> durl]
               /\ UNCHANGED xmetaUrl
       /\ UNCHANGED nonFacVars

\* fetch(metadataUrl) and its response: with a 2xx status the parsed body
\* is returned as it is
FactoryMetadata(resp) ==
    /\ xpc = "metadata"
    /\ IF resp.type = "json"
       THEN /\ xpc' = "returned"
            /\ xresult' = [kind |-> "metadata", metadata |-> resp.body]
       ELSE /\ xpc' = "threw"
            /\ xresult' = [kind |-> "error", names |-> durl]
    /\ UNCHANGED <<xmetaUrl, nonFacVars>>

(***************************************************************************)
(* OAuthTransportFactory.performAuthorizationFlow, call by call: the PKCE  *)
(* pair, the authorization URL, the callback listener and the token        *)
(* request of each call.  The parameters are those handed to               *)
(* URLSearchParams.                                                        *)
(***************************************************************************)
DefaultRedirectUri == "http://localhost:8080/callback"
OtherRedirectUri == "http://localhost:9090/callback"

\* the arguments of a call: clientId, resourceUrl and oauthConfig.redirect_uri
AttemptArgs ==
    { [clientId |-> "c1", resourceUrl |-> "r1", redirect_uri |-> Undef],
      [clientId |-> "c2", resourceUrl |-> "r2", redirect_uri |-> OtherRedirectUri] }

\* crypto.randomBytes(32) and crypto.randomBytes(16).toString('hex')
AttemptRandoms == {<<0>>, <<251, 255>>}
AttemptStates == {"s1", "s2"}

\* the requests the callback listeners receive
AttemptRequests ==
    [pathname : {"/callback", "/other"},
     error : Params({"access_denied"}),
     state : Params(AttemptStates),
     code : Params({"abc", "xyz"})]

\* parseInt(redirectUrl.port) || 8080
PortOf(redirectUri) == IF redirectUri = OtherRedirectUri THEN 9090 ELSE 8080

NoLocals == [redirectUri |-> "none"]

InitAttempt ==
    /\ vpc = [a \in Attempts |-> "idle"]
    /\ vlocals = [a \in Attempts |-> NoLocals]
    /\ vurl = [a \in Attempts |-> NoAuthUrl]
    /\ vreq = [a \in Attempts |-> NoRequest]
    /\ vtoken = [a \in Attempts |-> NoTokenRequest]
    /\ vcrashed = FALSE

\* the call up to the promise executor of handleAuthorizationCallback:
\* generatePKCE, redirectUri, buildAuthorizationUrl, openBrowser, listen
AttemptStart(a, args, random, state) ==
    LET pkce == generatePKCE(random)
        redirectUri == IF TruthyString(args.redirect_uri)
                       THEN args.redirect_uri ELSE DefaultRedirectUri
    IN /\ ~vcrashed
       /\ vpc[a] = "idle"
       /\ \A b \in Attempts : b < a => vpc[b] # "idle"
       /\ vlocals' = [vlocals EXCEPT ![a] =
                         [codeVerifier |-> pkce.codeVerifier,
                          codeChallenge |-> pkce.codeChallenge,
                          redirectUri |-> redirectUri,
                          state |-> state,
                          clientId |-> args.clientId,
                          resourceUrl |-> args.resourceUrl]]
       /\ vurl' = [vurl EXCEPT ![a] =
                      [response_type |-> "code",
                       client_id |-> args.clientId,
                       redirect_uri |-> redirectUri,
                       state |-> state,
                       code_challenge |-> pkce.codeChallenge,
                       code_challenge_method |-> "S256",
                       resource |-> args.resourceUrl]]
       /\ IF \E b \in Attempts : /\ vpc[b] = "listening"
                                 /\ PortOf(vlocals[b].redirectUri) = PortOf(redirectUri)
          THEN /\ vcrashed' = TRUE
               /\ vpc' = [vpc EXCEPT ![a] = "crashed"]
          ELSE /\ vpc' = [vpc EXCEPT ![a] = "listening"]
               /\ UNCHANGED vcrashed
       /\ UNCHANGED <<vreq, vtoken, nonAttVars>>

\* the request listener of the call's server, expectedState being the
\* state of the call's URL
AttemptRequest(a, req) ==
    /\ ~vcrashed
    /\ vpc[a] = "listening"
    /\ IF req.pathname = "/callback"
       THEN IF /\ ~TruthyParam(req.error)
               /\ req.state = <<vlocals[a].state>>
               /\ TruthyParam(req.code)
            THEN /\ vpc' = [vpc EXCEPT ![a] = "resolved"]
                 /\ vreq' = [vreq EXCEPT ![a] = req]
            ELSE /\ vpc' = [vpc EXCEPT ![a] = "rejected"]
                 /\ UNCHANGED vreq
       ELSE UNCHANGED <<vpc, vreq>>
    /\ UNCHANGED <<vlocals, vurl, vtoken, vcrashed, nonAttVars>>

\* the timeout of the listener rejects the pending promise
AttemptTimeout(a) ==
    /\ ~vcrashed
    /\ vpc[a] = "listening"
    /\ vpc' = [vpc EXCEPT ![a] = "rejected"]
    /\ UNCHANGED <<vlocals, vurl, vreq, vtoken, vcrashed, nonAttVars>>

\* the latest call that has started
LatestAttempt == CHOOSE a \in Attempts :
                    vpc[a] # "idle" /\ \A b \in Attempts : b > a => vpc[b] = "idle"

\* an exchange that takes the verifier from a field shared by the calls
AttemptExchange_SharedVerifier(a) ==
    /\ ~vcrashed
    /\ vpc[a] = "resolved"
    /\ vpc' = [vpc EXCEPT ![a] = "exchanging"]
    /\ vtoken' = [vtoken EXCEPT ![a] =
                     [grant_type |-> "authorization_code",
                      code |-> vreq[a].code[1],
                      redirect_uri |-> vlocals[a].redirectUri,
                      client_id |-> vlocals[a].clientId,
                      code_verifier |-> vlocals[LatestAttempt].codeVerifier,
                      resource |-> vlocals[a].resourceUrl]]
    /\ UNCHANGED <<vlocals, vurl, vreq, vcrashed, nonAttVars>>

\* exchangeCodeForToken(token_endpoint, authCode, codeVerifier, clientId,
\* redirectUri, resourceUrl)
AttemptExchange(a) ==
    /\ ~vcrashed
    /\ vpc[a] = "resolved"
    /\ vpc' = [vpc EXCEPT ![a] = "exchanging"]
    /\ vtoken' = [vtoken EXCEPT ![a] =
                     [grant_type |-> "authorization_code",
                      code |-> vreq[a].code[1],
                      redirect_uri |-> vlocals[a].redirectUri,
                      client_id |-> vlocals[a].clientId,
                      code_verifier |-> vlocals[a].codeVerifier,
                      resource |-> vlocals[a].resourceUrl]]
    /\ UNCHANGED <<vlocals, vurl, vreq, vcrashed, nonAttVars>>

Init ==
    /\ InitPool /\ InitTok /\ InitDisc /\ InitAS /\ InitFlow /\ InitCallback
    /\ InitTransport /\ InitParse /\ InitPKCE /\ InitFactory /\ InitAttempt /\ InitDown
    /\ now = 0

NextCallback ==
    \/ \E a \in Attempts, port \in CallbackPorts, occupied \in BOOLEAN :
           CallbackStart(a, port, occupied)
    \/ \E a \in Attempts, req \in HttpRequests : CallbackRequest(a, req)
    \/ \E a \in Attempts : CallbackTimeout(a)
    \/ \E a \in Attempts : CallbackExchange(a)
    \/ CallbackTick

SpecCallback == Init /\ [][NextCallback]_vars

NextTransport ==
    \/ \E kind \in {"http", "sse"}, url \in TransportUrls,
          headers \in CallerHeaders, oauthConfig \in TransportOAuthConfigs :
           CreateTransport(kind, url, headers, oauthConfig)
    \/ \E accessToken \in AccessTokens : CreateTransportToken(accessToken)
    \/ CreateTransportFailed
    \/ \E server \in Servers : CreateNewClient(server)
    \/ \E ok \in BOOLEAN : CreateNewClientConnected(ok)

SpecTransport == Init /\ [][NextTransport]_vars

NextAttempt ==
    \/ \E a \in Attempts, args \in AttemptArgs, random \in AttemptRandoms,
          state \in AttemptStates : AttemptStart(a, args, random, state)
    \/ \E a \in Attempts, req \in AttemptRequests : AttemptRequest(a, req)
    \/ \E a \in Attempts : AttemptTimeout(a)
    \/ \E a \in Attempts : AttemptExchange(a)

SpecAttempt == Init /\ [][NextAttempt]_vars

NextParse ==
    \/ \E header \in WrittenHeaders : ExtractCall(header)
    \/ \E text \in AnyHeaders : ExtractAny(text)

SpecParse == Init /\ [][NextParse]_vars

NextPKCE ==
    \/ \E random \in RandomBytes : GeneratePKCE(random)
    \/ BuildAuthorizationUrl
    \/ ExchangeCodeForToken

SpecPKCE == Init /\ [][NextPKCE]_vars

NextTok ==
    \/ \E tr \in TokenResponses, t \in Triples : storeToken(tr, t)
    \/ \E t \in Triples : getValidToken(t)
    \/ \E t \in Triples : removeToken(t)
    \/ \E t \in Triples, tr \in TokenResponses : updateToken(t, tr)
    \/ clearExpiredTokens
    \/ clearAllTokens
    \/ loadTokens
    \/ \E i \in 1..MaxOps : SaveSnapshot(i)
    \/ \E i \in 1..MaxOps : SaveWritten(i)
    \/ Tick

SpecTok == Init /\ [][NextTok]_vars

\* the TokenManager under its saving mutations only
NextMirror ==
    \/ \E tr \in TokenResponses, t \in Triples : storeToken(tr, t)
    \/ \E t \in Triples : removeToken(t)
    \/ \E t \in Triples, tr \in TokenResponses : updateToken(t, tr)
    \/ clearExpiredTokens
    \/ \E i \in 1..MaxOps : SaveSnapshot(i)
    \/ \E i \in 1..MaxOps : SaveWritten(i)
    \/ Tick

SpecMirror == Init /\ [][NextMirror]_vars

\* the TokenManager with loads and a backing file that can be damaged
NextLoad ==
    \/ \E tr \in TokenResponses, t \in Triples : storeToken(tr, t)
    \/ loadTokens
    \/ \E i \in 1..MaxOps : SaveSnapshot(i)
    \/ \E i \in 1..MaxOps : SaveWritten(i)
    \/ CorruptFile

SpecLoad == Init /\ [][NextLoad]_vars

SpecDisc == Init /\ [][NextDisc]_vars

NextFactory ==
    \/ NextDisc
    \/ FactoryDelegated
    \/ \E resp \in ResourceResponses : FactoryRefetch(resp)
    \/ \E resp \in MetadataResponses : FactoryMetadata(resp)

SpecFactory == Init /\ [][NextFactory]_vars

SpecAS == Init /\ [][NextAS]_vars

NextFlow ==
    \/ \E f \in Flows, c \in OAuthConfigs : FlowStart(f, c)
    \/ \E f \in Flows, m \in FlowMetadatas : FlowDiscovered(f, m)
    \/ \E f \in Flows : FlowDiscoveryFailed(f)
    \/ \E f \in Flows, status \in RegistrationStatuses : FlowRegistered(f, status)
    \/ \E f \in Flows : FlowExistingToken(f)
    \/ \E f \in Flows : FlowExpiredToken(f)
    \/ \E f \in Flows, tr \in TokenResponses : FlowRefreshed(f, tr)
    \/ \E f \in Flows : FlowRefreshRejected(f)
    \/ \E f \in Flows : FlowRefreshCatch(f)
    \/ \E f \in Flows : FlowSaved(f)
    \/ \E f \in Flows : FlowOpenBrowser(f)
    \/ \E f \in Flows, delivered \in BOOLEAN : FlowCallback(f, delivered)
    \/ \E f \in Flows, tr \in TokenResponses : FlowExchanged(f, tr)
    \/ \E f \in Flows : FlowExchangeRejected(f)
    \/ \E i \in 1..MaxFlows : SaveSnapshot(i)
    \/ \E i \in 1..MaxFlows : SaveWritten(i)
    \/ Tick

SpecFlow == Init /\ [][NextFlow]_vars

(***************************************************************************)
(* OAuthClient discovery: claims                                           *)
(***************************************************************************)
\* the resource_metadata URL carried by the response to the GET of serverUrl
ChallengeUrlOf(resp) ==
    IF resp.type = "challenge" THEN extractMetadataUrlFromWwwAuth(resp.wwwAuth)
    ELSE NoUrl

\* the order of the claim: step 1, step 2 (serverUrl, then the URL of the
\* challenge if the response carried one), step 3 in the listed order
ClaimedOrder ==
    LET fallback == FallbackUrls(durl)
        second == IF Len(dreqs) >= 2 /\ ChallengeUrlOf(dreqs[2].response) # NoUrl
                  THEN << <<2, ChallengeUrlOf(dreqs[2].response)>> >>
                  ELSE <<>>
    IN << <<1, Origin(durl) \o <<".well-known", "oauth-protected-resource">> >>,
          <<2, durl>> >>
       \o second
       \o [i \in 1..Len(fallback) |-> <<3, fallback[i]>>]

\* C4: the requests of discoverProtectedResourceMetadata are issued in the
\* order step 1, step 2, step 3 with none skipped, and a request that yields
\* valid metadata is the last request and makes the call return it.
C4_StrictShortCircuitOrder ==
    dpc # "idle" =>
        /\ Len(dreqs) <= Len(ClaimedOrder)
        /\ \A i \in DOMAIN dreqs :
              /\ <<dreqs[i].step, dreqs[i].url>> = ClaimedOrder[i]
              /\ \A j \in DOMAIN dreqs : j < i => dreqs[j].step <= dreqs[i].step
              /\ YieldsValidMetadata(dreqs[i].response)
                    => /\ i = Len(dreqs)
                       /\ dpc = "returned"
                       /\ dresult = [kind |-> "metadata",
                                     metadata |-> dreqs[i].response.body]
        /\ dpc = "returned" => YieldsValidMetadata(dreqs[Len(dreqs)].response)

C4_Witness ==
    /\ dpc = "returned"
    /\ Len(dreqs) >= 4
    /\ dreqs[3].step = 2
    /\ dreqs[Len(dreqs)].step = 3

AdvertisesS256(metadata) ==
    /\ "code_challenge_methods_supported" \in DOMAIN metadata
    /\ "S256" \in metadata.code_challenge_methods_supported

\* every endpoint of the issuer answered 2xx with a document without S256
AllAnsweredWithoutS256 ==
    /\ apc # "idle"
    /\ Len(areqs) = Len(buildDiscoveryEndpoints(aissuer))
    /\ \A i \in DOMAIN areqs :
          /\ areqs[i].response.type = "json"
          /\ ~AdvertisesS256(areqs[i].response.body)

\* C5: discoverAuthorizationServer never returns, nor records as
\* authServerMetadata, metadata that does not advertise S256; when every
\* endpoint answers successfully but none advertises S256 the call throws.
C5_NeverWithoutS256 ==
    /\ aresult.kind = "metadata" => AdvertisesS256(aresult.metadata)
    /\ authServerMetadata # NoMetadata => AdvertisesS256(authServerMetadata)
    /\ AllAnsweredWithoutS256 => apc = "threw" /\ aresult.kind = "error"

C5_Witness ==
    /\ AllAnsweredWithoutS256
    /\ apc = "threw"
    /\ authServerMetadata = NoMetadata

(***************************************************************************)
(* TokenManager: claims                                                    *)
(***************************************************************************)
\* the seven fields of a returned record equal what storeToken was given
SameAsStored(token, tokenResponse, t) ==
    /\ token # NoToken
    /\ token.access_token = tokenResponse.access_token
    /\ token.token_type = tokenResponse.token_type
    /\ token.refresh_token = tokenResponse.refresh_token
    /\ token.scope = tokenResponse.scope
    /\ token.resource = t[1]
    /\ token.client_id = t[2]
    /\ token.authorization_server = t[3]

\* a step of getValidToken that follows a storeToken of the same triple
GetAfterStore ==
    /\ ret.op = "storeToken"
    /\ ret'.op = "getValidToken"
    /\ ret'.triple = ret.triple

\* C8 (as claimed): storeToken followed by getValidToken with the same triple
\* returns a record whose fields equal what was stored, for any token response.
C8_RoundTripAlways ==
    [][GetAfterStore => SameAsStored(ret'.value, ret.arg, ret.triple)]_vars

\* C8 (amended): storeToken followed by getValidToken with the same triple
\* returns a record whose fields equal what was stored if the record has not
\* expired by the time of the get, and null if it has.
C8_RoundTripUnlessExpired ==
    [][GetAfterStore =>
        IF /\ TruthyNumber(ret.arg.expires_in)
           /\ now >= tokenCache[KeyOf(ret.triple)].expires_at[1]
        THEN ret'.value = NoToken
        ELSE SameAsStored(ret'.value, ret.arg, ret.triple)]_vars

C8_Witness ==
    /\ ret.op = "getValidToken"
    /\ ret.prev = "storeToken"
    /\ ret.value # NoToken
    /\ TruthyNumber(ret.value.expires_at)
    /\ now > 0

\* a step of getValidToken on triple t
GetStep(t) ==
    /\ ret' # ret
    /\ ret'.op = "getValidToken"
    /\ ret'.triple = t

\* C9: getValidToken returns null for a record whose expires_at has passed
\* and leaves the cache, the listing of all tokens, the backing file and the
\* saves in flight unchanged; an expired record leaves the cache only in a
\* step of clearExpiredTokens, removeToken or clearAllTokens.
C9_ExpiredHiddenNotDeleted ==
    [][/\ \A t \in Triples :
            (/\ GetStep(t)
             /\ tokenCache[KeyOf(t)] # NoToken
             /\ IsExpired(tokenCache[KeyOf(t)], now))
            => /\ ret'.value = NoToken
               /\ tokenCache' = tokenCache
               /\ getAllTokens(tokenCache') = getAllTokens(tokenCache)
               /\ file' = file
               /\ saves' = saves
       /\ \A k \in TokenKeys :
            (/\ tokenCache[k] # NoToken
             /\ IsExpired(tokenCache[k], now)
             /\ tokenCache'[k] = NoToken)
            => ret'.op \in {"clearExpiredTokens", "removeToken", "clearAllTokens"}
      ]_vars

C9_Witness ==
    /\ ret.op = "getValidToken"
    /\ ret.value = NoToken
    /\ tokenCache[KeyOf(ret.triple)] # NoToken
    /\ IsExpired(tokenCache[KeyOf(ret.triple)], now)
    /\ tokenCache[KeyOf(ret.triple)] \in getAllTokens(tokenCache)

\* C10 (as claimed): records of distinct triples never collide: a storeToken,
\* updateToken or removeToken under one triple never changes what
\* getValidToken returns for another triple.
C10_DistinctTriplesIndependent ==
    [][(/\ opCount' = opCount + 1
        /\ ret'.op \in {"storeToken", "updateToken", "removeToken"})
       => \A u \in Triples :
            u # ret'.triple =>
                ValidToken(tokenCache', u, now) = ValidToken(tokenCache, u, now)
      ]_vars


NextPool ==
    \/ \E r \in Requests, cfg \in Configs : MainHit(r, cfg)
    \/ \E r \in Requests, cfg \in Configs : MainMiss(r, cfg)
    \/ \E r \in Requests : ConnectDone(r)
    \/ \E r \in Requests : ConnectFail(r)
    \/ \E r \in Requests : CallDone(r)
    \/ \E h \in Handles : TimerFire(h)
    \/ \E h \in Handles : OnClose(h)
    \/ \E h \in Handles : OnError(h)
    \/ Tick


SpecPool == Init /\ [][NextPool]_vars

\* the pool in a process that ends with the shutdown hook
NextShutdown ==
    \/ ~exited /\ \E r \in Requests, cfg \in Configs : MainHit(r, cfg)
    \/ ~exited /\ \E r \in Requests, cfg \in Configs : MainMiss(r, cfg)
    \/ ~exited /\ \E r \in Requests : ConnectDone(r)
    \/ ~exited /\ \E r \in Requests : ConnectFail(r)
    \/ ~exited /\ \E r \in Requests : CallDone(r)
    \/ ~exited /\ \E h \in Handles : TimerFire(h)
    \/ ~exited /\ \E h \in Handles : OnClose(h)
    \/ ~exited /\ \E h \in Handles : OnError(h)
    \/ ~exited /\ Tick
    \/ \E throwing \in SUBSET Handles : Shutdown(throwing)

SpecShutdown == Init /\ [][NextShutdown]_vars

(***************************************************************************)
(* Connection pool: claims                                                 *)
(***************************************************************************)
Served(r) == rpc[r] \in {"calling", "done"}

\* C1 (as claimed): concurrent first callers of one fingerprint share a
\* single connection attempt: two invocations that are both waiting for
\* createNewClient under the same serverKey wait for the same Client.
C1_OneAttemptPerFingerprint ==
    \A r1, r2 \in Requests :
        (/\ r1 # r2
         /\ rpc[r1] = "connecting"
         /\ rpc[r2] = "connecting"
         /\ ServerKey(rcfg[r1]) = ServerKey(rcfg[r2]))
        => rmcp[r1] = rmcp[r2]

\* C2 (as claimed): two invocations with the same serverKey, the second
\* arriving less than IDLE_TIMEOUT_MS after the first, use the same Client
\* (the first one's Client having neither failed, errored nor closed).
C2_SameHandleInsideIdleWindow ==
    \A r1, r2 \in Requests :
        (/\ r1 < r2
         /\ rpc[r1] # "idle"
         /\ rpc[r2] # "idle"
         /\ ServerKey(rcfg[r1]) = ServerKey(rcfg[r2])
         /\ rstart[r2] - rstart[r1] < IDLE_TIMEOUT_MS
         /\ hstatus[rmcp[r1]] \in {"connecting", "open"})
        => rmcp[r2] = rmcp[r1]

\* C3 (as claimed): invocations whose effective configurations differ in
\* any component have different pool keys and never use the same Client.
C3_DistinctConfigsNeverShare ==
    \A r1, r2 \in Requests :
        (/\ Served(r1)
         /\ Served(r2)
         /\ rcfg[r1] # rcfg[r2])
        => /\ ServerKey(rcfg[r1]) # ServerKey(rcfg[r2])
           /\ rmcp[r1] # rmcp[r2]


(***************************************************************************)
(* C6: a call of getOrObtainAccessToken that finds an expired record       *)
(* carrying a refresh_token sends the refresh_token grant before it opens  *)
(* the browser, and a call whose refresh succeeded returns without opening *)
(* the browser.                                                            *)
(***************************************************************************)
C6_RefreshBeforeBrowser ==
    \A f \in Flows :
        /\ (fstale[f] /\ fbrowser[f]) => frefresh[f] # "none"
        /\ frefresh[f] = "ok" => ~fbrowser[f]

(***************************************************************************)
(* C7: when the refresh_token grant of a call fails, the step that handles *)
(* the failure leaves no record under the call's key, and the call does    *)
(* not end before it has gone through the authorization flow.              *)
(***************************************************************************)
C7_FailedRefreshRemovesAndReauthorizes ==
    /\ [][\A f \in Flows :
            (fpc[f] = "refresh_failed" /\ fpc'[f] # "refresh_failed") =>
                /\ tokenCache'[KeyOf(LookupTriple(f))] = NoToken
                /\ fpc'[f] = "remove_saving"]_vars
    /\ [](\A f \in Flows :
            (frefresh[f] = "failed" /\ fpc[f] \in {"returned", "threw"}) =>
                fbrowser[f])

\* a call whose refresh was rejected has removed the record, gone through the
\* authorization flow and returned
C7_Witness ==
    \E f \in Flows :
        /\ frefresh[f] = "failed"
        /\ fexpired[f] # NoToken
        /\ fbrowser[f]
        /\ fpc[f] = "returned"


EmptyCache == [k \in TokenKeys |-> NoToken]

(***************************************************************************)
(* C11 (as claimed): once clearAllTokens has run, and until the next call  *)
(* on the TokenManager, the cache is empty, the backing file does not      *)
(* exist, and a loadTokens would leave the cache empty.                    *)
(***************************************************************************)
C11_ClearAllLeavesNothing ==
    ret.op = "clearAllTokens" =>
        /\ tokenCache = EmptyCache
        /\ ~file.exists
        /\ LoadedCache(tokenCache, file) = EmptyCache

(***************************************************************************)
(* C19 (as claimed): after any sequence of storeToken, updateToken,        *)
(* removeToken and clearExpiredTokens calls, once no save is in flight the *)
(* content of the backing file equals the cache.                           *)
(***************************************************************************)
C19_FileMirrorsCache ==
    saves = <<>> => file.content = tokenCache


(***************************************************************************)
(* handleAuthorizationCallback: claims                                     *)
(***************************************************************************)
\* the request that settled attempt a was a /callback request
SettledByCallback(a) == creq[a].pathname = "/callback"

\* attempt a yielded the code of the request that settled it, the request
\* carrying the expected state and a code
YieldedItsCode(a) ==
    /\ SettledByCallback(a)
    /\ creq[a].state = <<ExpectedState(a)>>
    /\ TruthyParam(creq[a].code)
    /\ cresult[a] = Resolved(creq[a].code[1])

\* C12 (as claimed): a code is yielded only from a /callback request that has
\* no error parameter, the expected state and a code; a /callback request
\* with an error parameter, another state or no code rejects, and
\* exchangeCodeForToken is called only after a code was yielded.
C12_CodeOnlyWithoutErrorParameter ==
    \A a \in Attempts :
        /\ cpromise[a] = "resolved" =>
              YieldedItsCode(a) /\ creq[a].error = NoParam
        /\ (/\ SettledByCallback(a)
            /\ \/ creq[a].error # NoParam
               \/ creq[a].state # <<ExpectedState(a)>>
               \/ ~TruthyParam(creq[a].code))
           => cpromise[a] = "rejected" /\ cresult[a].kind = "error"
        /\ cexchange[a] => cpromise[a] = "resolved"

\* C12 (amended): a code is yielded only from a /callback request whose error
\* parameter is absent or empty, whose state is the expected one and which
\* carries a non-empty code; a /callback request with a non-empty error
\* parameter, another state or no code rejects, and exchangeCodeForToken is
\* called only after a code was yielded.
C12_CodeOnlyWithoutError ==
    \A a \in Attempts :
        /\ cpromise[a] = "resolved" =>
              YieldedItsCode(a) /\ ~TruthyParam(creq[a].error)
        /\ (/\ SettledByCallback(a)
            /\ \/ TruthyParam(creq[a].error)
               \/ creq[a].state # <<ExpectedState(a)>>
               \/ ~TruthyParam(creq[a].code))
           => cpromise[a] = "rejected" /\ cresult[a].kind = "error"
        /\ cexchange[a] => cpromise[a] = "resolved"

\* one attempt was rejected for a state that is not its own, another yielded
\* its code and went on to the exchange
C12_Witness ==
    \E a, b \in Attempts :
        /\ cpromise[a] = "rejected"
        /\ SettledByCallback(a)
        /\ ~TruthyParam(creq[a].error)
        /\ TruthyParam(creq[a].state)
        /\ creq[a].state # <<ExpectedState(a)>>
        /\ TruthyParam(creq[a].code)
        /\ cpromise[b] = "resolved"
        /\ cexchange[b]

\* C13 (as claimed): an attempt that has not ended is inside its window with
\* its listener up, so that a callback or the timeout can still end it; an
\* attempt that has ended has exactly one outcome (a code, an authorization
\* error or the timeout) and its listener is closed; an attempt ended by the
\* timeout was ended by no request.
C13_EveryAttemptEndsOnce ==
    \A a \in Attempts :
        /\ cpromise[a] = "pending" =>
              /\ ~crashed
              /\ cserver[a] = "listening"
              /\ ctimer[a] # NoTimer
              /\ now <= ctimer[a]
        /\ cpromise[a] = "resolved" =>
              cresult[a].kind = "code" /\ cserver[a] = "closed"
        /\ cpromise[a] = "rejected" =>
              cresult[a].kind = "error" /\ cserver[a] = "closed"
        /\ cresult[a] = Rejected(<<"Authorization timeout">>) =>
              creq[a] = NoRequest


(***************************************************************************)
(* C14: discoverProtectedResourceMetadata throws exactly when it has gone  *)
(* through its three steps, every fallback path included, without any      *)
(* response yielding valid metadata; the error it throws is the one that   *)
(* names serverUrl, whatever the individual requests failed with; and it   *)
(* returns exactly the metadata of the last response, which is valid.      *)
(***************************************************************************)
StepRequests(step) == {i \in DOMAIN dreqs : dreqs[i].step = step}

C14_FailsOnlyWhenEveryStepFailed ==
    /\ dpc = "threw" <=> dresult.kind = "error"
    /\ dpc = "threw" =>
          /\ dresult = [kind |-> "error", names |-> durl]
          /\ \A i \in DOMAIN dreqs : ~YieldsValidMetadata(dreqs[i].response)
          /\ Cardinality(StepRequests(1)) = 1
          /\ Cardinality(StepRequests(2)) \in {1, 2}
          /\ Cardinality(StepRequests(3)) = Len(FallbackUrls(durl))
    /\ dpc = "returned" =>
          /\ dreqs # <<>>
          /\ YieldsValidMetadata(dreqs[Len(dreqs)].response)
          /\ dresult = [kind |-> "metadata",
                        metadata |-> dreqs[Len(dreqs)].response.body]
    /\ (dreqs # <<>> /\ dpc \notin {"returned", "threw"}) =>
          \A i \in DOMAIN dreqs : ~YieldsValidMetadata(dreqs[i].response)

\* the call threw after a rejected fetch, a non-2xx status, an unparseable
\* body and a body without authorization_servers
C14_Witness ==
    /\ dpc = "threw"
    /\ \E i \in DOMAIN dreqs : dreqs[i].response.type = "error"
    /\ \E i \in DOMAIN dreqs : dreqs[i].response = [type |-> "status", status |-> 404]
    /\ \E i \in DOMAIN dreqs : dreqs[i].response.type = "unparseable"
    /\ \E i \in DOMAIN dreqs :
          /\ dreqs[i].response.type = "json"
          /\ ~HasAuthorizationServers(dreqs[i].response.body)


(***************************************************************************)
(* C15: discoverAuthorizationServer requests the candidates of the issuer  *)
(* one at a time in the listed order; a candidate that is not accepted is  *)
(* followed by the next one; the first accepted candidate is returned and  *)
(* nothing is requested after it; when no candidate is accepted the call   *)
(* throws the error that names the issuer.                                 *)
(***************************************************************************)
\* the candidates as the claim lists them, for the two issuers
ListedCandidates(issuer) ==
    IF issuer = <<"https://as.example", "tenant">>
    THEN << <<"https://as.example", ".well-known", "oauth-authorization-server", "tenant">>,
            <<"https://as.example", ".well-known", "openid-configuration", "tenant">>,
            <<"https://as.example", "tenant", ".well-known", "openid-configuration">> >>
    ELSE << <<"https://as.example", ".well-known", "oauth-authorization-server">>,
            <<"https://as.example", ".well-known", "openid-configuration">> >>

Accepted(resp) == resp.type = "json" /\ validateAuthServerMetadata(resp.body)

C15_CandidatesInListedOrder ==
    apc # "idle" =>
        LET listed == ListedCandidates(aissuer)
        IN /\ Len(areqs) <= Len(listed)
           /\ \A i \in DOMAIN areqs :
                 /\ areqs[i].url = listed[i]
                 /\ i < Len(areqs) => ~Accepted(areqs[i].response)
           /\ apc = "fetch" =>
                 /\ Len(areqs) < Len(listed)
                 /\ \A i \in DOMAIN areqs : ~Accepted(areqs[i].response)
           /\ apc = "returned" =>
                 /\ areqs # <<>>
                 /\ Accepted(areqs[Len(areqs)].response)
                 /\ aresult = [kind |-> "metadata",
                               metadata |-> areqs[Len(areqs)].response.body]
           /\ apc = "threw" =>
                 /\ Len(areqs) = Len(listed)
                 /\ \A i \in DOMAIN areqs : ~Accepted(areqs[i].response)
                 /\ aresult = [kind |-> "error", names |-> aissuer]

\* the third candidate of an issuer with a path was returned, after a
\* rejected fetch and a document that fails validation
C15_Witness ==
    /\ apc = "returned"
    /\ Len(areqs) = 3
    /\ areqs[1].response.type = "error"
    /\ areqs[2].response.type = "json"
    /\ areqs[3].url = <<"https://as.example", "tenant", ".well-known", "openid-configuration">>


(***************************************************************************)
(* C18 (as claimed): a call of getOrObtainAccessToken with no client_id    *)
(* and auto_register omitted, whose authorization server advertises a      *)
(* registration_endpoint, goes through dynamic client registration: past   *)
(* step 4 it is registering or holds the registered client_id, or the      *)
(* registration itself failed.                                             *)
(***************************************************************************)
C18_AutoRegisterDefaultsToTrue ==
    \A f \in Flows :
        (/\ fpc[f] \notin {"idle", "discover"}
         /\ fcfg[f].client_id = NoClientId
         /\ "auto_register" \notin DOMAIN fcfg[f]
         /\ "registration_endpoint" \in DOMAIN fas[f].metadata)
        => \/ fpc[f] = "register"
           \/ fclient[f] = RegisteredClientId
           \/ /\ fresult[f].kind = "error"
              /\ fresult[f].message = "Dynamic client registration failed"


(***************************************************************************)
(* Transports: claims                                                      *)
(***************************************************************************)
\* C16 (as claimed): a Client that createNewClient connects to an http or
\* sse server whose oauth_config is enabled has a transport whose
\* Authorization header is Bearer followed by an access token.
C16_OAuthServerConnectsWithBearer ==
    (/\ npc \in {"connecting", "connected"}
     /\ nserver.type \in {"http", "sse"}
     /\ OAuthEnabled(nserver.oauth_config))
    => \E accessToken \in AccessTokens :
          HeaderValues(ntransport.headers, "Authorization") = {Bearer(accessToken)}

\* C17 (as claimed): without OAuth the returned transport has the caller's
\* headers and no token was requested; with OAuth it has the caller's other
\* headers and, as its only Authorization header, Bearer followed by the
\* access token obtained.
C17_AuthorizationIffEnabled ==
    /\ ~OAuthEnabled(targs.oauthConfig) /\ tpc # "idle" =>
          /\ tpc = "returned"
          /\ ttoken = NoAccessToken
          /\ ttransport = RemoteTransport(targs.kind, targs.url, targs.headers)
    /\ tpc = "returned" /\ OAuthEnabled(targs.oauthConfig) =>
          /\ ttoken \in AccessTokens
          /\ ttransport.kind = targs.kind
          /\ ttransport.url = targs.url
          /\ \A n \in DOMAIN targs.headers :
                LowerCase(n) # "authorization" =>
                    /\ n \in DOMAIN ttransport.headers
                    /\ ttransport.headers[n] = targs.headers[n]
          /\ HeaderValues(ttransport.headers, "Authorization") = {Bearer(ttoken)}
    /\ tpc \in {"acquiring", "threw"} => ttransport = NoTransport


(***************************************************************************)
(* extractMetadataUrlFromWwwAuth: claims                                   *)
(***************************************************************************)
\* whether a challenge has a resource_metadata parameter
HasMetadataParam(c) ==
    \E i \in DOMAIN c.params : c.params[i].key = "resource_metadata"

MetadataParamOf(c) ==
    c.params[CHOOSE i \in DOMAIN c.params : c.params[i].key = "resource_metadata"].value

\* the resource_metadata of the first Bearer challenge of a header that has
\* one, in header order
FirstBearerValue(header) ==
    LET with == {i \in DOMAIN header :
                    IsBearer(header[i].scheme) /\ HasMetadataParam(header[i])}
    IN IF with = {} THEN NoUrl
       ELSE MetadataParamOf(header[CHOOSE i \in with : \A j \in with : i <= j])

\* C20 (as claimed): extractMetadataUrlFromWwwAuth returns the
\* resource_metadata value of the first challenge, in header order, whose
\* scheme is bearer in any case and which has the parameter, and null when
\* there is none.
C20_FirstBearerResourceMetadata ==
    ppc = "returned" => presult = FirstBearerValue(pheader)

\* nothing in the text matches the pattern of a challenge
NothingMatches(text) ==
    \A p \in 1..Len(text) : ~SchemeMatchAt(text, p).found

\* C21: the challenge parser never fails: for every header text
\* parseAuthChallenges returns a sequence of challenges, an empty one when
\* nothing in the text matches the pattern and the text does not begin with
\* "bearer", and extractMetadataUrlFromWwwAuth then returns null.
C21_ParserNeverFails ==
    ppc = "parsed" =>
        /\ \A i \in DOMAIN pchallenges :
              /\ pchallenges[i].scheme \in Words
              /\ DOMAIN pchallenges[i].params \subseteq Words
        /\ (NothingMatches(ptext) /\ ~StartsWithBearer(ptext)) =>
              (pchallenges = <<>> /\ presult = NoUrl)

\* a text with a parameter in it but no challenge, parsed to nothing
C21_Witness ==
    /\ ppc = "parsed"
    /\ ptext = <<"realm", EQ, "Basic">>
    /\ pchallenges = <<>>
    /\ presult = NoUrl

(***************************************************************************)
(* PKCE: claims                                                            *)
(***************************************************************************)
\* the unpadded URL-safe base64 encoding of the SHA-256 digest of a string
ChallengeOf(verifier) == DigestBase64Url(Sha256(Utf8(verifier)))

\* C22: for every pair returned by generatePKCE, codeChallenge is the
\* unpadded URL-safe base64 encoding of the SHA-256 digest of the
\* codeVerifier string exactly as transmitted, and the method used with it
\* is always S256.
C22_ChallengeIsS256OfVerifier ==
    /\ kpc # "idle" => kpkce.codeChallenge = ChallengeOf(kpkce.codeVerifier)
    /\ kpc \in {"authorizing", "exchanged"} =>
          /\ kauth.code_challenge_method = "S256"
          /\ kauth.code_challenge = ChallengeOf(kpkce.codeVerifier)
    /\ kpc = "exchanged" =>
          /\ ktoken.code_verifier = kpkce.codeVerifier
          /\ kauth.code_challenge = ChallengeOf(ktoken.code_verifier)

\* a verifier with both URL-safe characters in it has been transmitted
C22_Witness ==
    /\ kpc = "exchanged"
    /\ ktoken.code_verifier = <<"-", "_", "8">>
    /\ kauth.code_challenge = ChallengeOf(<<"-", "_", "8">>)

(***************************************************************************)
(* TokenManager: expiry, update and load                                   *)
(***************************************************************************)
\* the step is a call of the named TokenManager operation
IsCall(op) == opCount' = opCount + 1 /\ ret'.op = op

\* C23 (as claimed): storeToken sets expires_at = now + expires_in, in
\* milliseconds, whenever the token response carries expires_in, for every
\* value including 0, and leaves expires_at absent only when expires_in is
\* absent from the response.
C23_ExpiresAtWheneverExpiresIn ==
    [][IsCall("storeToken") =>
          LET stored == tokenCache'[KeyOf(ret'.triple)]
              expires_in == ret'.arg.expires_in
          IN IF expires_in # NoNumber
             THEN stored.expires_at = <<now + expires_in[1] * MsPerSecond>>
             ELSE stored.expires_at = NoNumber]_vars

\* C24: updateToken for a triple that has no record fails with an error and
\* leaves the in-memory mapping and the backing file unchanged: no record is
\* created and no save is performed.
C24_UpdateOfMissingRecordFails ==
    [][(/\ opCount' = opCount + 1
        /\ ret'.op \in {"updateToken", "updateToken threw"}
        /\ tokenCache[KeyOf(ret'.triple)] = NoToken)
       => /\ ret'.op = "updateToken threw"
          /\ tokenCache' = tokenCache
          /\ file' = file
          /\ saves' = saves]_vars

\* updateToken has thrown for a triple while another triple has a record
C24_Witness ==
    /\ ret.op = "updateToken threw"
    /\ ret.prev = "storeToken"
    /\ tokenCache[KeyOf(ret.triple)] = NoToken
    /\ \E k \in TokenKeys : tokenCache[k] # NoToken

\* the step is a call of loadTokens
IsLoad ==
    /\ ret'.op = "loadTokens"
    /\ opCount' = opCount /\ saves' = saves /\ file' = file /\ now' = now

\* C25 (as claimed): loadTokens never fails: when the backing file is absent
\* the store is empty after load and nothing is reported; when its content
\* is unparseable a warning is logged and the store is empty after load.
C25_LoadNeverFailsAndStartsEmpty ==
    [][IsLoad =>
          /\ ~file.exists =>
                (tokenCache' = EmptyCache /\ ret'.log = "none")
          /\ (file.exists /\ ~file.parseable) =>
                (tokenCache' = EmptyCache /\ ret'.log = "warn: Failed to load tokens")]_vars

(***************************************************************************)
(* Connection pool: callbacks, shutdown and idle timers                    *)
(***************************************************************************)
\* the close or error callback of the Client has fired
CallbackFired(h) == hstatus[h] \in {"closed", "errored"}

\* C26 (as claimed): once the close or error callback of a Client has fired,
\* no pool entry holds that Client, so no later invocation is given it, and
\* no idle timer of its entry is pending, so none fires afterwards.
C26_CallbackRemovesEntryAndTimer ==
    \A h \in Handles :
        CallbackFired(h) =>
            /\ \A key \in KeySet : clients[key].client # h
            /\ timerDue[h] = NoTimer

\* C27 (as claimed): after the shutdown hook has run, close has been called
\* on every Client that was in the pool, every idle timer is cancelled and
\* the pool is empty, even if closing some Client throws.
C27_ShutdownClosesAndClearsAll ==
    exited =>
        /\ \A h \in poolAtExit : hstatus[h] \in {"closeCalled", "closed"}
        /\ \A h \in Handles : timerDue[h] = NoTimer
        /\ \A key \in KeySet : clients[key] = NoEntry

\* the timer scheduled for the entry of Client h is due and its callback runs
TimerRuns(h) ==
    /\ timerDue[h] # NoTimer
    /\ now >= timerDue[h]
    /\ TimerFire(h)

\* C28: when an idle timer fires, if the entry under its fingerprint has
\* now - lastUsed >= the idle duration, the Client of the entry is closed and
\* the entry removed; otherwise the pool is left unchanged: entry, Client and
\* newer timer untouched; if there is no entry under the fingerprint the
\* firing does nothing.
C28_TimerClosesOnlyIdleEntry ==
    [][\A h \in Handles :
          TimerRuns(h) =>
              LET key == ServerKey(hcfg[h])
                  entry == clients[key]
              IN IF entry # NoEntry /\ now - entry.lastUsed >= IDLE_TIMEOUT_MS
                 THEN /\ clients' = [clients EXCEPT ![key] = NoEntry]
                      /\ hstatus'[entry.client] \in {"closeCalled", "closed"}
                      /\ \A g \in Handles \ {entry.client} : hstatus'[g] = hstatus[g]
                 ELSE /\ clients' = clients
                      /\ hstatus' = hstatus
                      /\ \A g \in Handles \ {h} : timerDue'[g] = timerDue[g]]_vars

\* an idle timer has closed the Client of an entry and removed the entry
C28_Witness ==
    \E h \in Handles :
        /\ hstatus[h] = "closeCalled"
        /\ clients[ServerKey(hcfg[h])] = NoEntry
        /\ timerDue[h] = NoTimer

\* C29 (as claimed): in every reachable state each pool entry has exactly
\* one pending idle timer, due at the entry's lastUsed + the idle duration,
\* and no timer is pending for a fingerprint whose entry has been removed:
\* every pending timer is the timer of the entry now in the pool.
C29_OneTimerPerEntry ==
    /\ \A key \in KeySet :
          clients[key] # NoEntry =>
              timerDue[clients[key].client] = clients[key].lastUsed + IDLE_TIMEOUT_MS
    /\ \A h \in Handles :
          timerDue[h] # NoTimer => clients[ServerKey(hcfg[h])].client = h

\* C30: updateToken on an existing record replaces access_token, token_type
\* and scope; replaces refresh_token only if the response supplies one,
\* otherwise the old one is kept; recomputes expires_at only if expires_in
\* is supplied, otherwise the old expires_at is kept; and leaves resource,
\* client_id, authorization_server and every other record unchanged.
C30_UpdateReplacesOnlyTokenFields ==
    [][IsCall("updateToken") =>
          LET key == KeyOf(ret'.triple)
              old == tokenCache[key]
              new == tokenCache'[key]
              response == ret'.arg
          IN /\ old # NoToken /\ new # NoToken
             /\ new.access_token = response.access_token
             /\ new.token_type = response.token_type
             /\ new.scope = response.scope
             /\ new.refresh_token =
                   IF response.refresh_token # Undef
                   THEN response.refresh_token ELSE old.refresh_token
             /\ response.expires_in = NoNumber => new.expires_at = old.expires_at
             /\ new.expires_at \in
                   {old.expires_at} \cup
                   {<<now + response.expires_in[i] * MsPerSecond>> :
                        i \in DOMAIN response.expires_in}
             /\ TruthyNumber(response.expires_in) =>
                   new.expires_at = <<now + response.expires_in[1] * MsPerSecond>>
             /\ new.resource = old.resource
             /\ new.client_id = old.client_id
             /\ new.authorization_server = old.authorization_server
             /\ \A k \in TokenKeys \ {key} : tokenCache'[k] = tokenCache[k]]_vars

\* a record stored with a refresh token and an expiry has been updated with a
\* response that has neither: both are the old ones
C30_Witness ==
    /\ ret.op = "updateToken"
    /\ ret.prev = "storeToken"
    /\ ret.arg.refresh_token = Undef
    /\ ret.arg.expires_in = NoNumber
    /\ tokenCache[KeyOf(ret.triple)].access_token = ret.arg.access_token
    /\ tokenCache[KeyOf(ret.triple)].refresh_token = "rt1"
    /\ tokenCache[KeyOf(ret.triple)].expires_at # NoNumber

\* the keys of the records whose expires_at is set and not later than now
PastExpiry == {k \in TokenKeys :
                 /\ tokenCache[k] # NoToken
                 /\ tokenCache[k].expires_at # NoNumber
                 /\ tokenCache[k].expires_at[1] <= now}

\* C31: clearExpiredTokens removes exactly the records whose expires_at is
\* set and not later than now, leaves every other record unchanged, and
\* rewrites the backing file iff at least one record was removed; afterwards
\* getAllTokens contains no expired record.
C31_SweepRemovesExactlyExpired ==
    [][IsCall("clearExpiredTokens") =>
          /\ \A k \in TokenKeys :
                tokenCache'[k] = IF k \in PastExpiry THEN NoToken ELSE tokenCache[k]
          /\ IF PastExpiry # {}
             THEN /\ Len(saves') = Len(saves) + 1
                  /\ SubSeq(saves', 1, Len(saves)) = saves
             ELSE saves' = saves
          /\ \A token \in getAllTokens(tokenCache') :
                token.expires_at = NoNumber \/ token.expires_at[1] > now]_vars

\* clearExpiredTokens has removed the record stored before it and has
\* started a save
C31_Witness ==
    /\ ret.op = "clearExpiredTokens"
    /\ ret.prev = "storeToken"
    /\ tokenCache = EmptyCache
    /\ Len(saves) = 2

\* C32: every protected resource metadata that getOrObtainAccessToken is
\* handed by discoverResourceMetadata has a non-empty authorization_servers
\* list, so that authorization_servers[0] is defined.
C32_ConsumedMetadataHasAuthorizationServers ==
    xpc = "returned" => HasAuthorizationServers(xresult.metadata)

\* the part that holds: what the OAuthClient's discovery returns has one
DelegatedMetadataHasAuthorizationServers ==
    dpc = "returned" => HasAuthorizationServers(dresult.metadata)

\* the catch blocks of createHttpTransport and createSSETransport: what
\* their caller gets when getOrObtainAccessToken ended as the call f did
TransportOutcome(f) ==
    IF fresult[f].kind = "error"
    THEN [kind |-> "error",
          message |-> <<"OAuth authentication failed: ", fresult[f].message>>]
    ELSE [kind |-> "transport"]

\* the token endpoint answers the call f's authorization-code exchange
\* with a non-2xx status
ExchangeRejected(f) == fpc[f] = "exchange" /\ fpc'[f] = "threw"

\* C33: when the token endpoint answers the authorization-code exchange
\* with a non-2xx status, the call stores and persists nothing, it ends
\* there without another exchange, and the caller of createHttpTransport or
\* createSSETransport gets the error.
C33_RejectedExchangeStoresNothing ==
    [][\A f \in Flows :
          /\ ExchangeRejected(f) =>
                /\ tokenCache' = tokenCache
                /\ file' = file
                /\ saves' = saves
                /\ \A i \in DOMAIN saves : saves[i].owner # f
                /\ TransportOutcome(f)' =
                      [kind |-> "error",
                       message |-> <<"OAuth authentication failed: ",
                                     "Token exchange failed">>]
          /\ fpc[f] = "threw" => fpc'[f] = "threw" /\ fresult'[f] = fresult[f]]_vars

\* a call ended on a rejected exchange while the store holds the token that
\* an earlier call obtained
C33_Witness ==
    /\ fresult[2] = [kind |-> "error", message |-> "Token exchange failed"]
    /\ fbrowser[2]
    /\ fresult[1].kind = "token"
    /\ tokenCache # EmptyCache

\* the call f has no client_id and cannot register one at the authorization
\* server whose metadata it found
CannotObtainClientId(f, metadata) ==
    /\ fcfg[f].client_id = NoClientId
    /\ \/ ~AutoRegister(fcfg[f])
       \/ "registration_endpoint" \notin DOMAIN metadata

\* the call f has looked up no token, opened no browser (and with it no
\* callback listener) and sent nothing to the token endpoint
NothingBeyondStep4(f) ==
    /\ ~fbrowser[f]
    /\ frefresh[f] = "none"
    /\ fexpired[f] = NoToken
    /\ fnew[f] = NoResponse
    /\ ~fstale[f]

CommaInQuotes(header) ==
    \E i \in DOMAIN header : \E j \in DOMAIN header[i].params :
        /\ header[i].params[j].quoted
        /\ \E k \in DOMAIN header[i].params[j].value :
              header[i].params[j].value[k] = COMMA

\* the challenges parsed are the challenges written, each with every quoted
\* parameter's value as it stands between the quotes
QuotedValuesVerbatim(header, challenges) ==
    /\ Len(challenges) = Len(header)
    /\ \A i \in DOMAIN header :
          /\ challenges[i].scheme = header[i].scheme
          /\ \A j \in DOMAIN header[i].params :
                LET p == header[i].params[j]
                IN p.quoted =>
                     /\ p.key \in DOMAIN challenges[i].params
                     /\ challenges[i].params[p.key] = p.value

\* C35: a quoted parameter value is returned as the text between its
\* quotes, also when it holds commas and spaces, and it neither starts a
\* new challenge nor cuts the parameter list of its challenge short.
C35_QuotedValuesVerbatim ==
    ppc = "returned" => QuotedValuesVerbatim(pheader, pchallenges)

\* the part that holds: headers whose quoted values hold no comma
QuotedValuesVerbatimWithoutComma ==
    (ppc = "returned" /\ ~CommaInQuotes(pheader)) =>
        QuotedValuesVerbatim(pheader, pchallenges)

\* the call g went through performAuthorizationFlow and returned, and the
\* record it stored is in the store and has not expired
StoredByFlow(g) ==
    /\ fpc[g] = "returned"
    /\ fbrowser[g]
    /\ tokenCache[KeyOf(StoreTriple(g))] # NoToken
    /\ ~IsExpired(tokenCache[KeyOf(StoreTriple(g))], now)

\* C36: once a call has stored a token through performAuthorizationFlow, a
\* later call for the same resource and client id that finds the same
\* metadata returns the stored token at step 5, without browser and without
\* token endpoint, whatever the issuer member of the metadata is.
C36_StoredTokenIsFoundAgain ==
    [][\A f, g \in Flows :
          (/\ fpc[f] = "lookup" /\ fpc'[f] # "lookup"
           /\ StoredByFlow(g)
           /\ fas[f] = fas[g]
           /\ fclient[f] = fclient[g])
          => /\ fpc'[f] = "returned"
             /\ fresult'[f] =
                   [kind |-> "token",
                    access_token |-> tokenCache[KeyOf(StoreTriple(g))].access_token]
             /\ ~fbrowser'[f]]_vars

\* the part that holds: metadata whose issuer is the listed URL
StoredTokenIsFoundAgainUnderSameIssuer ==
    [][\A f, g \in Flows :
          (/\ fpc[f] = "lookup" /\ fpc'[f] # "lookup"
           /\ StoredByFlow(g)
           /\ fas[f] = fas[g]
           /\ fclient[f] = fclient[g]
           /\ fas[g].metadata.issuer = fas[g].authServerUrl)
          => /\ fpc'[f] = "returned"
             /\ fresult'[f] =
                   [kind |-> "token",
                    access_token |-> tokenCache[KeyOf(StoreTriple(g))].access_token]
             /\ ~fbrowser'[f]]_vars

\* the Clients whose connect succeeded and on which close has not been
\* called and whose close callback has not fired
OpenHandles == {h \in Handles : hstatus[h] \in {"open", "errored"}}

\* C37: no handle leaks: every handle whose connect succeeded is held by a
\* pool entry, or close has been called on it, or its close callback has
\* fired.
C37_NoHandleLeaks ==
    OpenHandles \subseteq Pooled

\* C38: an idle timer that fires never closes a Client, nor removes its
\* entry, while a callTool on that Client has not returned, however long
\* the call lasts.
C38_NoEvictionDuringCall ==
    [][\A h \in Handles, r \in Requests :
          (TimerRuns(h) /\ rpc[r] = "calling") =>
              /\ hstatus'[rmcp[r]] = hstatus[rmcp[r]]
              /\ rmcp[r] \in Pooled => rmcp[r] \in Pooled']_vars

\* createNewClient throws in the request r
CreationFails(r) == rpc[r] = "connecting" /\ rpc'[r] = "failed"

\* the request q arrives
RequestArrives(q) == rpc[q] = "idle" /\ rpc'[q] # "idle"

C40_ExchangeUsesItsOwnAttempt ==
    \A a \in Attempts :
        vpc[a] = "exchanging" =>
            /\ ChallengeOf(vtoken[a].code_verifier) = vurl[a].code_challenge
            /\ vurl[a].code_challenge_method = "S256"
            /\ vtoken[a].client_id = vurl[a].client_id
            /\ vtoken[a].redirect_uri = vurl[a].redirect_uri
            /\ vtoken[a].resource = vurl[a].resource
            /\ vreq[a].pathname = "/callback"
            /\ vreq[a].state = <<vurl[a].state>>
            /\ vtoken[a].code = vreq[a].code[1]

\* two calls under way at once, with different verifiers, states, client
\* ids and codes, have both sent their token request
C40_Witness ==
    /\ vpc = [a \in Attempts |-> "exchanging"]
    /\ vtoken[1].code_verifier # vtoken[2].code_verifier
    /\ vurl[1].state # vurl[2].state
    /\ vtoken[1].client_id # vtoken[2].client_id
    /\ vtoken[1].code # vtoken[2].code

====
